---- MODULE Spec2Model ----
(***************************************************************************)
(* DID / verifiable-credential engine of muuduuu/DIDS.                     *)
(*                                                                         *)
(*   server/services/crypto.ts  (src/unnamed/part_002)  key pairs, sign,   *)
(*                                                       verify            *)
(*   server/services/did.ts                              generateDidKey    *)
(*   server/services/vc.ts                               issue / verify    *)
(*   server/storage.ts          (src/unnamed/part_001)  MemStorage         *)
(*   server/routes.ts           (src/unnamed/part_003)  HTTP handlers      *)
(*                                                                         *)
(* Representation.  A JavaScript string is a sequence of tokens; a token   *)
(* is a TLA+ string and the text is the concatenation of the tokens.       *)
(* Every character the code looks at on its own (hex digits, base58 and    *)
(* base64 digits, the ':' of a DID, the first character of proofValue) is  *)
(* a token of its own.  A Uint8Array / Buffer is a sequence over 0..255.   *)
(* An optional value (a property that may be undefined) is <<>> when       *)
(* absent and <<v>> when present.                                          *)
(***************************************************************************)
EXTENDS Integers, Sequences, FiniteSets, TLC

(***************************************************************************)
(* Bounds of the model.                                                    *)
(***************************************************************************)
\* bytes of a private key and of an Ed25519 public key (32 in the library)
KeyLen == 1
\* key pairs randomBytes can return
MaxDids == 2

None == <<>>
Some(v) == <<v>>
IsSome(o) == o # <<>>
Get(o) == o[1]

\* position of the first x in sequence s, 0 when there is none
IndexOf(s, x) ==
  LET hits == { i \in 1..Len(s) : s[i] = x }
  IN IF hits = {} THEN 0 ELSE CHOOSE i \in hits : \A j \in hits : i <= j

(***************************************************************************)
(* State.                                                                  *)
(***************************************************************************)
VARIABLES
  dids,          \* MemStorage.dids, the records in insertion order
  vcs,           \* MemStorage.vcs, the records in insertion order
  currentDidId,  \* MemStorage.currentDidId
  currentVcId,   \* MemStorage.currentVcId
  response,      \* the last HTTP response sent: [route, status, body]
  input,         \* the requests made (Spec), or the arguments of a call of
                 \* a service function
  output,        \* what each handler has come to (Spec), or what the call
                 \* returned, None before it is made
  uuids,         \* the number of values uuidv4() has returned
  library        \* the release of @noble/curves the build installed, one
                 \* of Libraries

vars == <<dids, vcs, currentDidId, currentVcId, response, input, output, uuids, library>>
store == <<dids, vcs, currentDidId, currentVcId>>
\* what no handler and no service function writes
given == <<input, library>>

(***************************************************************************)
(* Buffer.toString('hex') and Buffer.from(s, 'hex').                       *)
(***************************************************************************)
HexDigits == <<"0","1","2","3","4","5","6","7","8","9","a","b","c","d","e","f">>
HexUpper == <<"0","1","2","3","4","5","6","7","8","9","A","B","C","D","E","F">>

Range(s) == { s[i] : i \in 1..Len(s) }

HexTable ==
  [c \in Range(HexDigits) \cup Range(HexUpper) |->
     IF IndexOf(HexDigits, c) > 0 THEN IndexOf(HexDigits, c) - 1
     ELSE IndexOf(HexUpper, c) - 1]

\* value of a hex digit, -1 for any other character
HexVal(c) == IF c \in DOMAIN HexTable THEN HexTable[c] ELSE -1

toHex(bytes) ==
  [i \in 1..(2 * Len(bytes)) |->
     LET b == bytes[(i + 1) \div 2]
     IN IF i % 2 = 1 THEN HexDigits[(b \div 16) + 1] ELSE HexDigits[(b % 16) + 1]]

\* Node decodes pairs of hex digits and stops at the first pair that is not
\* two hex digits; an odd trailing digit is dropped.
fromHex(str) ==
  LET good == { k \in 0..(Len(str) \div 2) :
                  \A j \in 1..k : HexVal(str[2 * j - 1]) >= 0 /\ HexVal(str[2 * j]) >= 0 }
      n == Cardinality(good) - 1
  IN [j \in 1..n |-> HexVal(str[2 * j - 1]) * 16 + HexVal(str[2 * j])]

(***************************************************************************)
(* Buffer.toString('base64') and Buffer.from(s, 'base64').                 *)
(***************************************************************************)
B64Digits ==
  <<"A","B","C","D","E","F","G","H","I","J","K","L","M","N","O","P",
    "Q","R","S","T","U","V","W","X","Y","Z","a","b","c","d","e","f",
    "g","h","i","j","k","l","m","n","o","p","q","r","s","t","u","v",
    "w","x","y","z","0","1","2","3","4","5","6","7","8","9","+","/">>

B64Table ==
  [c \in Range(B64Digits) \cup {"-", "_"} |->
     IF c = "-" THEN 62 ELSE IF c = "_" THEN 63 ELSE IndexOf(B64Digits, c) - 1]

\* value of a base64 digit (the url-safe '-' and '_' are accepted too),
\* -1 for any other character
B64Val(c) == IF c \in DOMAIN B64Table THEN B64Table[c] ELSE -1

\* three bytes make four digits; a last group of one or two bytes is padded
\* with '='
toBase64(bytes) ==
  LET n == Len(bytes)
      At(k) == IF k <= n THEN bytes[k] ELSE 0
  IN [i \in 1..(4 * ((n + 2) \div 3)) |->
        LET g == (i - 1) \div 4
            p == (i - 1) % 4
            v == At(3 * g + 1) * 65536 + At(3 * g + 2) * 256 + At(3 * g + 3)
        IN IF p = 2 /\ 3 * g + 2 > n THEN "="
           ELSE IF p = 3 /\ 3 * g + 3 > n THEN "="
           ELSE B64Digits[((v \div (64 ^ (3 - p))) % 64) + 1]]

IsB64Digit(c) == B64Val(c) >= 0

\* Node's decoder never fails: it reads up to the first '=', skips what is
\* no base64 digit and decodes the digits there are
fromBase64(str) ==
  LET stop == IndexOf(str, "=")
      upto == IF stop = 0 THEN str ELSE SubSeq(str, 1, stop - 1)
      digits == SelectSeq(upto, IsB64Digit)
      k == Len(digits)
      At(q) == IF q <= k THEN B64Val(digits[q]) ELSE 0
  IN [j \in 1..((6 * k) \div 8) |->
        LET q == ((8 * (j - 1)) \div 6) + 1
            r == (8 * (j - 1)) % 6
            v == At(q) * 4096 + At(q + 1) * 64 + At(q + 2)
        IN (v \div (2 ^ (10 - r))) % 256]

(***************************************************************************)
(* base58btc.encode of multiformats: 'z' followed by the base-58 digits    *)
(* of the bytes read as one big-endian number, one '1' per leading zero    *)
(* byte.                                                                   *)
(***************************************************************************)
B58Digits ==
  <<"1","2","3","4","5","6","7","8","9","A","B","C","D","E","F","G","H",
    "J","K","L","M","N","P","Q","R","S","T","U","V","W","X","Y","Z",
    "a","b","c","d","e","f","g","h","i","j","k","m","n","o","p","q","r",
    "s","t","u","v","w","x","y","z">>

RECURSIVE DivBy58(_, _)
\* long division of a big-endian base-256 number by 58, carrying rem in:
\* <<quotient digits, remainder>>
DivBy58(bytes, rem) ==
  IF bytes = <<>> THEN <<(<<>>), rem>>
  ELSE LET cur == rem * 256 + Head(bytes)
           rest == DivBy58(Tail(bytes), cur % 58)
       IN <<(<<cur \div 58>>) \o rest[1], rest[2]>>

RECURSIVE StripZeros(_)
StripZeros(bytes) ==
  IF bytes # <<>> /\ Head(bytes) = 0 THEN StripZeros(Tail(bytes)) ELSE bytes

RECURSIVE LeadingZeros(_)
LeadingZeros(bytes) ==
  IF bytes # <<>> /\ Head(bytes) = 0 THEN <<"1">> \o LeadingZeros(Tail(bytes)) ELSE <<>>

RECURSIVE B58Number(_)
\* base-58 digits, most significant first, of a number without leading zeros
B58Number(bytes) ==
  IF bytes = <<>> THEN <<>>
  ELSE LET qr == DivBy58(bytes, 0)
       IN B58Number(StripZeros(qr[1])) \o <<B58Digits[qr[2] + 1]>>

base58btcEncode(bytes) == <<"z">> \o LeadingZeros(bytes) \o B58Number(StripZeros(bytes))

(***************************************************************************)
(* Key pairs (crypto.ts).  The curve arithmetic of @noble/curves is not    *)
(* part of the repository; it is modelled by what the code relies on: the  *)
(* public key is a fixed injective function of the private key, an Ed25519 *)
(* public key has KeyLen bytes and a compressed secp256k1 public key has   *)
(* one parity byte (2 or 3) more.                                          *)
(***************************************************************************)
\* utils.randomPrivateKey(): the n-th call returns a key no earlier call
\* returned
randomPrivateKey(n) == [i \in 1..KeyLen |-> 16 * n + i]

\* the private keys there are
PrivateKeys == { randomPrivateKey(n) : n \in 1..MaxDids }

ed25519GetPublicKey(sk) == [i \in 1..Len(sk) |-> (sk[i] * 5 + 1) % 256]
secp256k1GetPublicKey(sk) ==
  <<2 + (sk[1] % 2)>> \o [i \in 1..Len(sk) |-> (sk[i] * 3 + 7) % 256]

generateEd25519KeyPair(privateKey) ==
  LET publicKey == ed25519GetPublicKey(privateKey)
  IN [publicKey |-> publicKey, privateKey |-> privateKey,
      publicKeyHex |-> toHex(publicKey), privateKeyHex |-> toHex(privateKey)]

generateSecp256k1KeyPair(privateKey) ==
  LET publicKey == secp256k1GetPublicKey(privateKey)
  IN [publicKey |-> publicKey, privateKey |-> privateKey,
      publicKeyHex |-> toHex(publicKey), privateKeyHex |-> toHex(privateKey)]

(***************************************************************************)
(* Messages.  JSON.stringify yields a text, a sequence of tokens, and      *)
(* TextEncoder.encode its UTF-8 bytes: a token of n ASCII characters is n  *)
(* bytes, each the code of its character.  The signature primitives read   *)
(* the bytes, so two texts of the same characters are the same message     *)
(* however the characters are grouped into tokens.                         *)
(***************************************************************************)
ContextUrl == "https://www.w3.org/2018/credentials/v1"
ObjectKeys ==
  <<"@context", "id", "type", "issuer", "issuanceDate", "credentialSubject",
    "proof", "created", "verificationMethod", "proofPurpose", "proofValue",
    "name", "degree", "address", "city">>
KeyToken(k) == "\"" \o k \o "\":"
\* a string of 8193 characters, one more than InputLimit
Times16(str) ==
  str \o str \o str \o str \o str \o str \o str \o str
      \o str \o str \o str \o str \o str \o str \o str \o str
LongWord == Times16(Times16(Times16("xx"))) \o "x"
Words ==
  <<ContextUrl, "VerifiableCredential", "IdentityCredential", "UniversityDegree",
    "Ed25519Signature2020", "EcdsaSecp256k1Signature2019", "assertionMethod",
    "did", "key", "example", "urn", "uuid", "undefined", "#",
    "alice", "alyce", "Ada", "Ava", "BSc", "MSc", "2025-06-19T00:00:0", ".000Z",
    LongWord, "Paris", "Zo", "U+00EB", "\\\"", "\\ud800", "null", "true", "false">>
\* the tokens the texts of the model are made of
Vocabulary ==
  <<"{", "}", "[", "]", ",", ":", "\"">>
    \o [i \in 1..Len(ObjectKeys) |-> KeyToken(ObjectKeys[i])]
    \o Words \o B64Digits \o <<"=", "-", "_">>

\* the printable ASCII characters the texts are written with, in the order
\* of their codes: from the space (code 32) to '_' (code 95), and from 'a'
\* (code 97) to '~' (code 126)
AsciiFrom32 ==
  <<" ", "!", "\"", "#", "$", "%", "&", "'", "(", ")", "*", "+", ",", "-", ".", "/",
    "0", "1", "2", "3", "4", "5", "6", "7", "8", "9", ":", ";", "<", "=", ">", "?",
    "@", "A", "B", "C", "D", "E", "F", "G", "H", "I", "J", "K", "L", "M", "N", "O",
    "P", "Q", "R", "S", "T", "U", "V", "W", "X", "Y", "Z", "[", "\\", "]", "^", "_">>
AsciiFrom97 ==
  <<"a", "b", "c", "d", "e", "f", "g", "h", "i", "j", "k", "l", "m", "n", "o",
    "p", "q", "r", "s", "t", "u", "v", "w", "x", "y", "z", "{", "|", "}", "~">>

\* a character outside ASCII is a token that names its code point: U+00EB
\* is the letter e with diaeresis, two bytes in UTF-8, and U+D800 a lone
\* surrogate
Utf8Bytes == [t \in {"U+00EB"} |-> <<"0xC3", "0xAB">>]
Utf8Length == [t \in DOMAIN Utf8Bytes |-> Len(Utf8Bytes[t])]

\* the value of a byte: of an ASCII character its code, and the values of
\* the two bytes of U+00EB
ByteTable ==
  [b \in Range(AsciiFrom32) \cup Range(AsciiFrom97) \cup {"0xC3", "0xAB"} |->
     IF b = "0xC3" THEN 195
     ELSE IF b = "0xAB" THEN 171
     ELSE IF IndexOf(AsciiFrom32, b) # 0 THEN 31 + IndexOf(AsciiFrom32, b)
     ELSE 96 + IndexOf(AsciiFrom97, b)]
ByteCodes(bytes) == [i \in 1..Len(bytes) |-> ByteTable[bytes[i]]]

RECURSIVE ByteLength(_)
ByteLength(text) ==
  IF text = <<>> THEN 0
  ELSE IF Len(text) = 1
  THEN (IF text[1] \in DOMAIN Utf8Length THEN Utf8Length[text[1]] ELSE Len(text[1]))
  ELSE ByteLength(SubSeq(text, 1, Len(text) \div 2))
         + ByteLength(SubSeq(text, Len(text) \div 2 + 1, Len(text)))

\* the first n bytes of a token, all of them when it has no more
FirstBytes(token, n) ==
  IF token \in DOMAIN Utf8Bytes
  THEN SubSeq(Utf8Bytes[token], 1, IF n < Len(Utf8Bytes[token]) THEN n ELSE Len(Utf8Bytes[token]))
  ELSE [k \in 1..(IF n < Len(token) THEN n ELSE Len(token)) |-> SubSeq(token, k, k)]

\* the bytes of a token
TokenBytes(token) == FirstBytes(token, ByteLength(<<token>>))

(***************************************************************************)
(* Signatures (crypto.ts over @noble/curves 1.x, which is not part of the  *)
(* repository).  Both schemes sign with SigLen = 64 bytes: KeyLen bytes    *)
(* that bind the key and DigestLen bytes that bind what the scheme hashes. *)
(*                                                                         *)
(*   ed25519.sign hashes the whole message (SHA-512).  The digest here is  *)
(*   the product of one matrix ((x, 1), (1, 0)) per byte, x > 0 a function *)
(*   of the byte.  Over the integers such a product tells its factors (it  *)
(*   is the continued fraction of them), so two messages have two          *)
(*   products; the digest keeps the product modulo each of seven primes,   *)
(*   a residue modulo a number of 105 bits.                                *)
(*                                                                         *)
(*   secp256k1.sign takes its first argument as the message HASH and does  *)
(*   not hash it (prehash is off by default): bits2int keeps the leftmost  *)
(*   256 bits, the first 32 bytes, of what it is given, and the signature  *)
(*   binds exactly those.                                                  *)
(*                                                                         *)
(* What the releases of the library differ in is open, and the variable    *)
(* library holds which one the build installed: ed25519.verify either      *)
(* ensures the length of the public key before its try block, and a key of *)
(* another length is an exception, or leaves the key to Point.fromHex      *)
(* inside the try block, and such a key gives false.                       *)
(***************************************************************************)
Libraries == {"ensures the key length", "parses the key"}

\* bytes of a signature: ed25519.sign returns 64 bytes, toCompactRawBytes 64
SigLen == 64
\* bytes of the digest part of a signature
DigestLen == SigLen - KeyLen
\* bytes bits2int keeps, and bytes of each of the two numbers r and s of a
\* compact secp256k1 signature: nBitLength / 8
HashBytes == 256 \div 8
\* bits2int refuses an input of more bytes than this
InputLimit == 8 * 1024

\* the seven primes; a product is seven matrices <<a, b, c, d>>, the k-th
\* taken modulo the k-th prime
Moduli == <<32749, 32719, 32717, 32713, 32707, 32693, 32687>>
\* the product of no byte, and of one byte
NoBytes ==
  <<(<<1, 0, 0, 1>>), (<<1, 0, 0, 1>>), (<<1, 0, 0, 1>>), (<<1, 0, 0, 1>>),
    (<<1, 0, 0, 1>>), (<<1, 0, 0, 1>>), (<<1, 0, 0, 1>>)>>
OfByte(b) ==
  <<(<<113 * b + 7, 1, 1, 0>>), (<<113 * b + 7, 1, 1, 0>>), (<<113 * b + 7, 1, 1, 0>>),
    (<<113 * b + 7, 1, 1, 0>>), (<<113 * b + 7, 1, 1, 0>>), (<<113 * b + 7, 1, 1, 0>>),
    (<<113 * b + 7, 1, 1, 0>>)>>

\* the product of two matrices modulo p
Times(m, n, p) ==
  <<(m[1] * n[1] + m[2] * n[3]) % p, (m[1] * n[2] + m[2] * n[4]) % p,
    (m[3] * n[1] + m[4] * n[3]) % p, (m[3] * n[2] + m[4] * n[4]) % p>>

\* what hashing bytes m and then bytes n gives
Joined(m, n) ==
  <<Times(m[1], n[1], Moduli[1]), Times(m[2], n[2], Moduli[2]),
    Times(m[3], n[3], Moduli[3]), Times(m[4], n[4], Moduli[4]),
    Times(m[5], n[5], Moduli[5]), Times(m[6], n[6], Moduli[6]),
    Times(m[7], n[7], Moduli[7])>>

RECURSIVE OfBytes(_)
OfBytes(codes) ==
  IF codes = <<>> THEN NoBytes
  ELSE IF Len(codes) = 1 THEN OfByte(codes[1])
  ELSE Joined(OfBytes(SubSeq(codes, 1, Len(codes) \div 2)),
              OfBytes(SubSeq(codes, Len(codes) \div 2 + 1, Len(codes))))

\* the products of the tokens of Vocabulary, computed once
TokenProducts == [t \in Range(Vocabulary) |-> OfBytes(ByteCodes(TokenBytes(t)))]
OfToken(t) ==
  IF t \in DOMAIN TokenProducts THEN TokenProducts[t]
  ELSE OfBytes(ByteCodes(TokenBytes(t)))

RECURSIVE OfText(_)
OfText(text) ==
  IF text = <<>> THEN NoBytes
  ELSE IF Len(text) = 1 THEN OfToken(text[1])
  ELSE Joined(OfText(SubSeq(text, 1, Len(text) \div 2)),
              OfText(SubSeq(text, Len(text) \div 2 + 1, Len(text))))

\* the numbers of a product as DigestLen bytes: two bytes each, matrix
\* after matrix, and zeros
AsBytes(product) ==
  [j \in 1..DigestLen |->
     IF j > 8 * Len(product) THEN 0
     ELSE LET number == product[((j - 1) \div 8) + 1][(((j - 1) % 8) \div 2) + 1]
          IN IF j % 2 = 1 THEN number \div 256 ELSE number % 256]

\* the digest of a text
Digest(text) == AsBytes(OfText(text))

RECURSIVE bits2int(_, _)
\* the first n bytes of the text, fewer when the text is shorter: the cut
\* falls where the byte count says, inside a token or a character too
bits2int(text, n) ==
  IF text = <<>> \/ n <= 0 THEN <<>>
  ELSE FirstBytes(Head(text), n) \o bits2int(Tail(text), n - ByteLength(<<Head(text)>>))

\* the bytes bits2int kept as DigestLen bytes, zeros after the last
Padded(codes) == [j \in 1..DigestLen |-> IF j <= Len(codes) THEN codes[j] ELSE 0]

\* the result of a call that may throw
Returned(v) == [threw |-> FALSE, value |-> v, message |-> ""]
Threw(m) == [threw |-> TRUE, value |-> <<>>, message |-> m]

\* bytes of an Ed25519 key of the library, for which KeyLen bytes stand here
nByteLength == 32
\* the number of bytes of the key that the bytes of a key stand for: an
\* Ed25519 key, a compressed and an uncompressed secp256k1 key; bytes that
\* come of no key stand for themselves
keyLength(bytes) ==
  IF Len(bytes) = KeyLen THEN nByteLength
  ELSE IF Len(bytes) = KeyLen + 1 THEN nByteLength + 1
  ELSE IF Len(bytes) = 2 * KeyLen + 1 THEN 2 * nByteLength + 1
  ELSE Len(bytes)

\* the message of ensureBytes(title, bytes, expected) for bytes of another
\* length
expectedBytes(title, expected, length) ==
  title \o " expected " \o ToString(expected) \o " bytes, got " \o ToString(length)

\* ed25519.sign / secp256k1.sign(...).toCompactRawBytes(); both reject a
\* private key of the wrong length with an exception
ed25519Sign(message, privateKey) ==
  IF Len(privateKey) # KeyLen THEN Threw(expectedBytes("private key", nByteLength, keyLength(privateKey)))
  ELSE Returned(ed25519GetPublicKey(privateKey) \o Digest(message))

secp256k1SignCompact(msgHash, privateKey) ==
  IF Len(privateKey) # KeyLen THEN Threw("invalid private key")
  ELSE IF ByteLength(msgHash) > InputLimit THEN Threw("input is too large")
  ELSE Returned(Tail(secp256k1GetPublicKey(privateKey))
                  \o Padded(ByteCodes(bits2int(msgHash, HashBytes))))

\* ed25519.verify: ensureBytes rejects a signature that is not 64 bytes long
\* with an exception, and in the releases that ensure the key length a
\* public key that is not KeyLen bytes long; a public key that is no curve
\* point gives false.  A signature is accepted exactly when it is the one
\* the holder of the private key makes for the message (the scheme is
\* unforgeable).
ed25519Verify(signature, message, publicKey) ==
  IF Len(signature) # SigLen THEN Threw(expectedBytes("signature", SigLen, Len(signature)))
  ELSE IF Len(publicKey) # KeyLen /\ library = "ensures the key length"
  THEN Threw(expectedBytes("publicKey", nByteLength, keyLength(publicKey)))
  ELSE Returned(\E sk \in PrivateKeys :
                  /\ ed25519GetPublicKey(sk) = publicKey
                  /\ signature = ed25519Sign(message, sk).value)

\* DER of one of the two numbers of a signature: tag 2, the length, and the
\* bytes of the number without leading zeros, a zero byte before them when
\* the first has its high bit set
derInteger(bytes) ==
  LET digits == IF StripZeros(bytes) = <<>> THEN <<0>> ELSE StripZeros(bytes)
      body == IF digits[1] >= 128 THEN <<0>> \o digits ELSE digits
  IN <<2, Len(body)>> \o body

\* Signature.toDERRawBytes of the signature whose compact bytes are given:
\* tag 48, the length, and the two numbers
toDERRawBytes(compact) ==
  LET r == derInteger(SubSeq(compact, 1, HashBytes))
      s == derInteger(SubSeq(compact, HashBytes + 1, 2 * HashBytes))
  IN <<48, Len(r) + Len(s)>> \o r \o s

\* the bytes are a number as DER writes one: not empty, not negative, no
\* zero byte before a byte that needs none (the numbers of a signature of
\* the model stand for scalars that are not zero, and the one byte 0 is
\* taken for one)
isDerNumber(bytes) ==
  /\ Len(bytes) >= 1
  /\ bytes[1] < 128
  /\ Len(bytes) = 1 \/ bytes[1] # 0 \/ bytes[2] >= 128

\* DER.toSig can read the bytes: a sequence that holds two numbers and
\* nothing else; the lengths are below 128 and take one byte each
isDER(signature) ==
  /\ Len(signature) >= 8
  /\ signature[1] = 48
  /\ signature[2] = Len(signature) - 2
  /\ signature[3] = 2
  /\ 4 + signature[4] + 2 <= Len(signature)
  /\ signature[5 + signature[4]] = 2
  /\ signature[6 + signature[4]] = Len(signature) - 6 - signature[4]
  /\ isDerNumber(SubSeq(signature, 5, 4 + signature[4]))
  /\ isDerNumber(SubSeq(signature, 7 + signature[4], Len(signature)))

\* a number of a signature as HashBytes bytes, None when it has more
numberToBytes(digits) ==
  IF Len(StripZeros(digits)) > HashBytes THEN None
  ELSE Some([j \in 1..(HashBytes - Len(StripZeros(digits))) |-> 0] \o StripZeros(digits))

\* Signature.fromDER: the compact bytes of the signature DER wrote, None
\* when one of its numbers is no scalar; signature is DER
fromDER(signature) ==
  LET r == numberToBytes(SubSeq(signature, 5, 4 + signature[4]))
      s == numberToBytes(SubSeq(signature, 7 + signature[4], Len(signature)))
  IN IF r = None \/ s = None THEN None ELSE Some(Get(r) \o Get(s))

\* the signature secp256k1.verify reads: DER is tried first, and the
\* compact form, 64 bytes, when the bytes are no DER; None for what is
\* neither
parsedSignature(signature) ==
  IF isDER(signature) THEN fromDER(signature)
  ELSE IF Len(signature) = SigLen THEN Some(signature)
  ELSE None

\* secp256k1.getPublicKey(sk, false): the point uncompressed, a byte 4, x
\* and y
secp256k1Uncompressed(sk) ==
  <<4>> \o Tail(secp256k1GetPublicKey(sk)) \o [i \in 1..Len(sk) |-> (sk[i] * 11 + 4) % 256]

\* Point.fromHex: the private keys of the points the bytes are an encoding
\* of, compressed or uncompressed; none for bytes that are no point
pointFromHex(publicKey) ==
  { sk \in PrivateKeys :
      publicKey \in {secp256k1GetPublicKey(sk), secp256k1Uncompressed(sk)} }

\* secp256k1.verify: false for a signature or a key it cannot parse; then
\* an exception from bits2int for an input over InputLimit; then the same
\* unforgeability over what secp256k1.sign signs.
secp256k1Verify(signature, msgHash, publicKey) ==
  IF parsedSignature(signature) = None \/ pointFromHex(publicKey) = {}
  THEN Returned(FALSE)
  ELSE IF ByteLength(msgHash) > InputLimit THEN Threw("input is too large")
  ELSE Returned(\E sk \in pointFromHex(publicKey) :
                  Get(parsedSignature(signature)) = secp256k1SignCompact(msgHash, sk).value)

signEd25519(message, privateKey) == ed25519Sign(message, privateKey)

verifyEd25519(signature, message, publicKey) ==
  ed25519Verify(signature, message, publicKey)

signSecp256k1(message, privateKey) == secp256k1SignCompact(message, privateKey)

\* part_002:49-55: an exception of secp256k1.verify is false
verifySecp256k1(signature, message, publicKey) ==
  LET r == secp256k1Verify(signature, message, publicKey)
  IN IF r.threw THEN Returned(FALSE) ELSE r

(***************************************************************************)
(* did.ts                                                                  *)
(***************************************************************************)
RECURSIVE split(_, _)
\* String.prototype.split on a one-character separator
split(str, sep) ==
  LET i == IndexOf(str, sep)
  IN IF i = 0 THEN <<str>>
     ELSE <<SubSeq(str, 1, i - 1)>> \o split(SubSeq(str, i + 1, Len(str)), sep)

\* faulty variant: n counted from 1
InterpolatedFromOne(parts, n) ==
  IF 1 <= n /\ n <= Len(parts) THEN parts[n] ELSE <<"undefined">>
\* `${parts[n]}` of a template literal, n counted from 0
Interpolated(parts, n) == IF n + 1 <= Len(parts) THEN parts[n + 1] ELSE <<"undefined">>

\* faulty variant: the rest of the string when its first character is z,
\* the empty string otherwise
afterLeadingZ(str) == IF str # <<>> /\ Head(str) = "z" THEN Tail(str) ELSE <<>>
\* String.prototype.substring(1)
substring1(str) == IF str = <<>> THEN <<>> ELSE Tail(str)

\* faulty variant: one multicodec prefix for both schemes
onePrefix(keyType) == <<237, 1>>

multicodecPrefix(keyType) == IF keyType = "ed25519" THEN <<237, 1>> ELSE <<231, 1>>

\* did.ts:39-43
publicKeyMultibase(keyType, publicKey) ==
  <<"z">> \o substring1(base58btcEncode(multicodecPrefix(keyType) \o publicKey))

\* did.ts:44
didOfKey(keyType, publicKey) ==
  <<"did", ":", "key", ":">> \o publicKeyMultibase(keyType, publicKey)

\* faulty variant: capabilityDelegation names the DID, not the key
didDocumentBareDelegation(keyType, did, multibase) ==
  [context |-> <<"https://www.w3.org/ns/did/v1">>,
   id |-> did,
   verificationMethod |->
     <<[id |-> did \o <<"#">> \o multibase,
        type |-> IF keyType = "ed25519" THEN "Ed25519VerificationKey2020"
                 ELSE "EcdsaSecp256k1VerificationKey2019",
        controller |-> did,
        publicKeyMultibase |-> multibase]>>,
   authentication |-> <<did \o <<"#">> \o multibase>>,
   assertionMethod |-> <<did \o <<"#">> \o multibase>>,
   capabilityInvocation |-> <<did \o <<"#">> \o multibase>>,
   capabilityDelegation |-> <<did>>]
\* did.ts:46-59
didDocumentOf(keyType, did, multibase) ==
  [context |-> <<"https://www.w3.org/ns/did/v1">>,
   id |-> did,
   verificationMethod |->
     <<[id |-> did \o <<"#">> \o multibase,
        type |-> IF keyType = "ed25519" THEN "Ed25519VerificationKey2020"
                 ELSE "EcdsaSecp256k1VerificationKey2019",
        controller |-> did,
        publicKeyMultibase |-> multibase]>>,
   authentication |-> <<did \o <<"#">> \o multibase>>,
   assertionMethod |-> <<did \o <<"#">> \o multibase>>,
   capabilityInvocation |-> <<did \o <<"#">> \o multibase>>,
   capabilityDelegation |-> <<did \o <<"#">> \o multibase>>]

\* did.ts:38-61, with the key pair of did.ts:28-36
didKeyOf(keyType, keyPair, did, multibase) ==
  [did |-> did, keyPair |-> keyPair, didDocument |-> didDocumentOf(keyType, did, multibase)]

\* did.ts:28-36
keyPairOf(keyType, privateKey) ==
  IF keyType = "ed25519" THEN generateEd25519KeyPair(privateKey)
  ELSE generateSecp256k1KeyPair(privateKey)

\* generateDidKey with the private key the random source returned
generateDidKey(keyType, privateKey) ==
  didKeyOf(keyType, keyPairOf(keyType, privateKey),
           didOfKey(keyType, keyPairOf(keyType, privateKey).publicKey),
           publicKeyMultibase(keyType, keyPairOf(keyType, privateKey).publicKey))

(***************************************************************************)
(* JSON.  A value is a record that tells its type t and what it holds: a   *)
(* string its text v; null, true and false the word v JSON writes; a       *)
(* number, a natural number, its decimal digits v; an object its members,  *)
(* the sequence of its <<key, value>> properties in insertion order; an    *)
(* array its elements.  Of the characters JSON escapes the strings here    *)
(* can hold the quote and a lone surrogate.  A credential is an object:    *)
(* the request schema asks no more of it, and each property can hold a     *)
(* value of any type.                                                      *)
(***************************************************************************)
JString(str) == [t |-> "string", v |-> str]
JObject(props) == [t |-> "object", members |-> props]
JArray(elements) == [t |-> "array", elements |-> elements]
JLiteral(word) == [t |-> "literal", v |-> <<word>>]
JNumber(digits) == [t |-> "number", v |-> digits]

\* what JSON.stringify writes for a character it escapes
EscapeTable == [t \in {"\"", "U+D800"} |-> IF t = "\"" THEN "\\\"" ELSE "\\ud800"]
Escape(t) == IF t \in DOMAIN EscapeTable THEN EscapeTable[t] ELSE t

QuotedText(str) == <<"\"">> \o [i \in 1..Len(str) |-> Escape(str[i])] \o <<"\"">>

RECURSIVE JoinTexts(_)
\* texts separated by ','
JoinTexts(texts) ==
  IF texts = <<>> THEN <<>>
  ELSE IF Len(texts) = 1 THEN texts[1]
  ELSE texts[1] \o <<",">> \o JoinTexts(Tail(texts))

\* members: a sequence of <<key, text of the value>>
StringifyMembers(members) ==
  <<"{">> \o JoinTexts([i \in 1..Len(members) |->
                          <<KeyToken(members[i][1])>> \o members[i][2]])
          \o <<"}">>

RECURSIVE StringifyValue(_)
StringifyValue(val) ==
  IF val.t = "string" THEN QuotedText(val.v)
  ELSE IF val.t \in {"literal", "number"} THEN val.v
  ELSE IF val.t = "array"
  THEN <<"[">> \o JoinTexts([i \in 1..Len(val.elements) |->
                               StringifyValue(val.elements[i])]) \o <<"]">>
  ELSE StringifyMembers([i \in 1..Len(val.members) |->
                           <<val.members[i][1], StringifyValue(val.members[i][2])>>])

\* JSON.stringify of a credential object: its properties in the order the
\* object has them (the order in which they were created, or in which the
\* parsed text had them)
JSONstringify(c) == StringifyValue(c)

\* the value of property key of an object, None when it has none
Property(props, key) ==
  LET hits == { i \in 1..Len(props) : props[i][1] = key }
  IN IF hits = {} THEN None ELSE Some(props[CHOOSE i \in hits : TRUE][2])

\* val.key for one of the property names the code reads: undefined for a
\* value that is no object
Prop(val, key) == IF val.t = "object" THEN Property(val.members, key) ELSE None

\* JavaScript truthiness of a value, and of a property that may be undefined
IsTruthy(val) ==
  IF val.t = "string" THEN val.v # <<>>
  ELSE IF val.t = "literal" THEN val.v = <<"true">>
  ELSE IF val.t = "number" THEN val.v # <<"0">>
  ELSE TRUE
Truthy(opt) == IsSome(opt) /\ IsTruthy(Get(opt))

\* faulty variant of the spread: a key the target has is added once more
spreadAppend(target, source) == target \o source

RECURSIVE spread(_, _)
\* { ...target, ...source }: a key target has keeps its place and takes the
\* new value, a new key is appended
spread(target, source) ==
  IF source = <<>> THEN target
  ELSE LET k == source[1][1]
           hits == { i \in 1..Len(target) : target[i][1] = k }
           next == IF hits = {} THEN Append(target, source[1])
                   ELSE [i \in 1..Len(target) |->
                           IF i \in hits THEN source[1] ELSE target[i]]
       IN spread(next, Tail(source))

\* the property name a key token holds
KeyOfToken ==
  [t \in { KeyToken(ObjectKeys[i]) : i \in 1..Len(ObjectKeys) } |->
     ObjectKeys[CHOOSE i \in 1..Len(ObjectKeys) : KeyToken(ObjectKeys[i]) = t]]

\* the character an escape sequence stands for
UnescapeTable == [t \in {"\\\"", "\\ud800"} |-> IF t = "\\\"" THEN "\"" ELSE "U+D800"]
Unescape(t) == IF t \in DOMAIN UnescapeTable THEN UnescapeTable[t] ELSE t

\* a member read by JSON.parse: a name read before keeps its place and
\* takes the value read last
setProperty(props, key, value) ==
  IF \E i \in 1..Len(props) : props[i][1] = key
  THEN [i \in 1..Len(props) |-> IF props[i][1] = key THEN <<key, value>> ELSE props[i]]
  ELSE Append(props, <<key, value>>)

\* the quote that ends the string that starts at pos
closingQuote(text, pos) ==
  CHOOSE j \in (pos + 1)..Len(text) :
    text[j] = "\"" /\ \A k \in (pos + 1)..(j - 1) : text[k] # "\""

ParseString(text, pos) ==
  [value |-> JString([i \in 1..(closingQuote(text, pos) - pos - 1) |-> Unescape(text[pos + i])]),
   next |-> closingQuote(text, pos) + 1]

\* the decimal digits
Digits == Range(SubSeq(HexDigits, 1, 10))

\* the position after the digits that start at pos
digitsEnd(text, pos) ==
  CHOOSE j \in (pos + 1)..(Len(text) + 1) :
    /\ \A k \in pos..(j - 1) : text[k] \in Digits
    /\ j = Len(text) + 1 \/ text[j] \notin Digits

ParseNumber(text, pos) ==
  [value |-> JNumber(SubSeq(text, pos, digitsEnd(text, pos) - 1)),
   next |-> digitsEnd(text, pos)]

RECURSIVE ParseValue(_, _)
RECURSIVE ParseMembers(_, _, _)
RECURSIVE ParseElements(_, _, _)
\* the members of an object from pos on, up to its '}'
ParseMembers(text, pos, props) ==
  IF text[pos] = "}" THEN [value |-> JObject(props), next |-> pos + 1]
  ELSE IF text[pos] = "," THEN ParseMembers(text, pos + 1, props)
  ELSE LET member == ParseValue(text, pos + 1)
       IN ParseMembers(text, member.next,
                       setProperty(props, KeyOfToken[text[pos]], member.value))

\* the elements of an array from pos on, up to its ']'
ParseElements(text, pos, elements) ==
  IF text[pos] = "]" THEN [value |-> JArray(elements), next |-> pos + 1]
  ELSE IF text[pos] = "," THEN ParseElements(text, pos + 1, elements)
  ELSE LET element == ParseValue(text, pos)
       IN ParseElements(text, element.next, Append(elements, element.value))

\* the value that starts at pos and the position after it
ParseValue(text, pos) ==
  IF text[pos] = "{" THEN ParseMembers(text, pos + 1, <<>>)
  ELSE IF text[pos] = "[" THEN ParseElements(text, pos + 1, <<>>)
  ELSE IF text[pos] = "\"" THEN ParseString(text, pos)
  ELSE IF text[pos] \in {"null", "true", "false"}
  THEN [value |-> JLiteral(text[pos]), next |-> pos + 1]
  ELSE ParseNumber(text, pos)

\* JSON.parse of a text JSON.stringify wrote
JSONparse(text) == ParseValue(text, 1).value

(***************************************************************************)
(* vc.ts                                                                   *)
(***************************************************************************)
\* the object without the property key
Without(c, key) == JObject(SelectSeq(c.members, LAMBDA p : p[1] # key))

\* the object with the property key set to value, where the property
\* stands, or after the others when the object has none
With(c, key, value) == JObject(setProperty(c.members, key, value))

\* faulty variant: the proof is left in the object that is serialized
keepProof(credential) == credential

\* faulty variant: the proof is serialized too, all but its proofValue
withoutProofValue(credential) ==
  IF Truthy(Prop(credential, "proof")) /\ Get(Prop(credential, "proof")).t = "object"
  THEN With(credential, "proof", Without(Get(Prop(credential, "proof")), "proofValue"))
  ELSE credential
\* the object destructuring { proof, ...credentialWithoutProof }
withoutProof(credential) == Without(credential, "proof")

\* vc.ts:35-47
unsignedCredential(issuerDid, subjectDid, credentialType, claims, now, uuid) ==
  JObject(<< <<"@context", JArray(<<JString(<<ContextUrl>>)>>)>>,
             <<"id", JString(<<"urn", ":", "uuid", ":">> \o uuid)>>,
             <<"type", JArray(<<JString(<<"VerifiableCredential">>),
                                JString(credentialType)>>)>>,
             <<"issuer", JString(issuerDid)>>,
             <<"issuanceDate", JString(now)>>,
             <<"credentialSubject",
               JObject(spread(<< <<"id", JString(subjectDid)>> >>, claims))>> >>)

\* vc.ts:56-62: the signature, or the exception of the primitive
signatureOf(message, privateKeyBytes, keyType) ==
  IF keyType = "ed25519" THEN signEd25519(message, privateKeyBytes)
  ELSE signSecp256k1(message, privateKeyBytes)

\* vc.ts:56-70
proofOf(issuerDid, keyType, now, signature) ==
  JObject(<< <<"type", JString(IF keyType = "ed25519" THEN <<"Ed25519Signature2020">>
                               ELSE <<"EcdsaSecp256k1Signature2019">>)>>,
             <<"created", JString(now)>>,
             <<"verificationMethod",
               JString(issuerDid \o <<"#">> \o Interpolated(split(issuerDid, ":"), 2))>>,
             <<"proofPurpose", JString(<<"assertionMethod">>)>>,
             <<"proofValue", JString(<<"z">> \o toBase64(signature))>> >>)

\* faulty variant: when signing fails the credential is returned as it is,
\* without a proof
withOrWithoutProof(credential, issuerDid, keyType, now, signed) ==
  IF signed.threw THEN Returned(credential)
  ELSE Returned(JObject(spread(credential.members,
                               << <<"proof", proofOf(issuerDid, keyType, now,
                                                     signed.value)>> >>)))
\* vc.ts:64-75; { ...credential, proof } puts proof after the properties of
\* the credential
withProof(credential, issuerDid, keyType, now, signed) ==
  IF signed.threw THEN Threw(signed.message)
  ELSE Returned(JObject(spread(credential.members,
                               << <<"proof", proofOf(issuerDid, keyType, now,
                                                     signed.value)>> >>)))

\* vc.ts:49-75
signCredential(credential, issuerDid, privateKey, keyType, now) ==
  withProof(credential, issuerDid, keyType, now,
            signatureOf(JSONstringify(credential), fromHex(privateKey), keyType))

\* issueVerifiableCredential; now and uuid are what new Date() and uuidv4()
\* returned.  The result is Returned(credential) or Threw(message).
issueVerifiableCredential(issuerDid, subjectDid, credentialType, claims, privateKey, keyType, now, uuid) ==
  signCredential(unsignedCredential(issuerDid, subjectDid, credentialType, claims, now, uuid),
                 issuerDid, privateKey, keyType, now)

\* x || "": x when it is truthy (an object or an array, empty or not, is),
\* the empty string when it is undefined or falsy
OrEmpty(opt) == IF Truthy(opt) THEN Get(opt) ELSE JString(<<>>)

\* credential.credentialSubject?.id || ""
SubjectOrEmpty(credential) ==
  OrEmpty(IF IsSome(Prop(credential, "credentialSubject"))
          THEN Prop(Get(Prop(credential, "credentialSubject")), "id") ELSE None)

\* faulty variant: a failure result that reports nothing of the credential
AnonymousResult(credential, errors) ==
  [verified |-> FALSE,
   issuer |-> JString(<<>>),
   subject |-> Some(JString(<<>>)),
   issuanceDate |-> Some(JString(<<>>)),
   errors |-> Some(errors)]

\* the result returned when a check fails before the signature is looked at,
\* and by the catch block
FailedResult(credential, errors) ==
  [verified |-> FALSE,
   issuer |-> OrEmpty(Prop(credential, "issuer")),
   subject |-> Some(SubjectOrEmpty(credential)),
   issuanceDate |-> Some(OrEmpty(Prop(credential, "issuanceDate"))),
   errors |-> Some(errors)]

\* credential.proof.proofValue, read when credential.proof is truthy
proofValueOf(credential) == Prop(Get(Prop(credential, "proof")), "proofValue")

\* faulty variant: @context is not looked at
StructureErrorsSansContext(credential) ==
  (IF \/ ~Truthy(Prop(credential, "type"))
      \/ ~Truthy(Prop(credential, "issuer"))
      \/ ~Truthy(Prop(credential, "credentialSubject"))
   THEN <<"Invalid credential structure">> ELSE <<>>)
  \o
  (IF ~Truthy(Prop(credential, "proof")) \/ ~Truthy(proofValueOf(credential))
   THEN <<"Missing or invalid proof">> ELSE <<>>)

\* vc.ts:92-99
StructureErrors(credential) ==
  (IF \/ ~Truthy(Prop(credential, "@context")) \/ ~Truthy(Prop(credential, "type"))
      \/ ~Truthy(Prop(credential, "issuer"))
      \/ ~Truthy(Prop(credential, "credentialSubject"))
   THEN <<"Invalid credential structure">> ELSE <<>>)
  \o
  (IF ~Truthy(Prop(credential, "proof")) \/ ~Truthy(proofValueOf(credential))
   THEN <<"Missing or invalid proof">> ELSE <<>>)

\* faulty variant: a branch taken on the key type alone
anyEd25519Key(keyType, proofType) == keyType = "ed25519"

\* vc.ts:120 and vc.ts:122: the conditions of the two branches; proofType is
\* proof.type, a value of any type or undefined
matchesEd25519(keyType, proofType) ==
  keyType = "ed25519" /\ proofType = Some(JString(<<"Ed25519Signature2020">>))

matchesSecp256k1(keyType, proofType) ==
  keyType = "secp256k1" /\ proofType = Some(JString(<<"EcdsaSecp256k1Signature2019">>))

\* vc.ts:119-124: the primitive the branch taken invokes
verifyWith(isEd, isSecp, signatureBytes, message, publicKeyBytes) ==
  IF isEd THEN verifyEd25519(signatureBytes, message, publicKeyBytes)
  ELSE IF isSecp THEN verifySecp256k1(signatureBytes, message, publicKeyBytes)
  ELSE Returned(FALSE)

\* faulty variants: a signature that is not valid reported by the mismatch
\* reason only, and the invalid-signature reason kept for the signatures a
\* primitive checked
signatureErrorsSansInvalid(matched, verified) ==
  IF ~matched THEN <<"Unsupported signature type or key mismatch">> ELSE <<>>

signatureErrorsOfBranch(matched, verified) ==
  IF ~matched THEN <<"Unsupported signature type or key mismatch">>
  ELSE IF ~verified THEN <<"Invalid signature">> ELSE <<>>
\* vc.ts:125-131
signatureErrors(matched, verified) ==
  (IF ~matched THEN <<"Unsupported signature type or key mismatch">> ELSE <<>>)
    \o (IF ~verified THEN <<"Invalid signature">> ELSE <<>>)

\* vc.ts:132-138
verdict(credential, verified, errors) ==
  [verified |-> verified /\ errors = <<>>,
   issuer |-> Get(Prop(credential, "issuer")),
   subject |-> Prop(Get(Prop(credential, "credentialSubject")), "id"),
   issuanceDate |-> Prop(credential, "issuanceDate"),
   errors |-> IF errors # <<>> THEN Some(errors) ELSE None]

\* faulty variant: the proof is deleted from the object the caller passed
afterDelete(credential) == Without(credential, "proof")

\* vc.ts:112: the object the caller passed once the destructuring has copied
\* its properties; no statement of vc.ts:78-149 assigns to it
afterDestructuring(credential) == credential

\* vc.ts:119-138 once the branch is chosen: call is what the primitive
\* returned or threw, calls the primitives invoked, credential the object
\* the caller passed as the call leaves it
afterCall(credential, isEd, isSecp, call) ==
  [threw |-> call.threw,
   message |-> call.message,
   credential |-> afterDestructuring(credential),
   calls |-> IF isEd THEN <<"verifyEd25519">>
             ELSE IF isSecp THEN <<"verifySecp256k1">> ELSE <<>>,
   result |-> IF call.threw THEN FailedResult(credential, <<>>)
              ELSE verdict(credential, call.value,
                           signatureErrors(isEd \/ isSecp, call.value))]

\* vc.ts:113-138
checkWith(credential, isEd, isSecp, signatureBytes, message, publicKeyBytes) ==
  afterCall(credential, isEd, isSecp,
            verifyWith(isEd, isSecp, signatureBytes, message, publicKeyBytes))

\* vc.ts:117: proofValue.substring(1) of a proofValue that is truthy and no
\* string is a TypeError, thrown before a branch is chosen
notAString(credential) ==
  [threw |-> TRUE,
   message |-> "proof.proofValue.substring is not a function",
   credential |-> afterDestructuring(credential),
   calls |-> <<>>,
   result |-> FailedResult(credential, <<>>)]

\* vc.ts:111-138: the signature check, reached when StructureErrors is empty.
\* calls lists the signature primitives invoked; threw tells that the
\* statements threw.
CheckSignature(credential, issuerPublicKey, keyType) ==
  IF Get(proofValueOf(credential)).t # "string" THEN notAString(credential)
  ELSE checkWith(credential,
                 matchesEd25519(keyType, Prop(Get(Prop(credential, "proof")), "type")),
                 /\ ~matchesEd25519(keyType, Prop(Get(Prop(credential, "proof")), "type"))
                 /\ matchesSecp256k1(keyType, Prop(Get(Prop(credential, "proof")), "type")),
                 fromBase64(substring1(Get(proofValueOf(credential)).v)),
                 JSONstringify(withoutProof(credential)),
                 fromHex(issuerPublicKey))

\* vc.ts:101-109
afterStructure(credential, issuerPublicKey, keyType, errors) ==
  IF errors # <<>>
  THEN [threw |-> FALSE, message |-> "", credential |-> credential, calls |-> <<>>,
        result |-> FailedResult(credential, errors)]
  ELSE CheckSignature(credential, issuerPublicKey, keyType)

\* vc.ts:90-138, the body of the try block
VerifyBody(credential, issuerPublicKey, keyType) ==
  afterStructure(credential, issuerPublicKey, keyType, StructureErrors(credential))

\* vc.ts:140-148, the catch block
caught(credential, body) ==
  IF body.threw
  THEN [threw |-> FALSE, message |-> "", credential |-> body.credential,
        calls |-> body.calls,
        result |-> FailedResult(credential,
                                <<"Verification failed: " \o body.message>>)]
  ELSE body

\* faulty variant: no catch around the body
VerifyUncaught(credential, issuerPublicKey, keyType) ==
  VerifyBody(credential, issuerPublicKey, keyType)

\* vc.ts:89-148: the try block and its catch.  threw tells whether the call
\* ends with an exception.
VerifyRun(credential, issuerPublicKey, keyType) ==
  caught(credential, VerifyBody(credential, issuerPublicKey, keyType))

verifyVerifiableCredential(credential, issuerPublicKey, keyType) ==
  VerifyRun(credential, issuerPublicKey, keyType).result

(***************************************************************************)
(* storage.ts: MemStorage.  A Map is the sequence of its values in         *)
(* insertion order; set() on a key the Map has replaces the value where it *)
(* stands.                                                                 *)
(***************************************************************************)
\* faulty variant: the record stored last, whatever DID is asked for
getDidLatest(ds, did) == IF ds = <<>> THEN None ELSE Some(ds[Len(ds)])
getDid(ds, did) ==
  LET hits == { i \in 1..Len(ds) : ds[i].did = did }
  IN IF hits = {} THEN None ELSE Some(ds[CHOOSE i \in hits : \A j \in hits : i <= j])

getAllDids(ds) == ds

\* faulty variant: the store keeps the new record only
createDidOnly(ds, newDid) == <<newDid>>
\* faulty variant: the new record is put before the records there are
createDidFirst(ds, newDid) == <<newDid>> \o ds
\* this.dids.set(newDid.did, newDid)
createDid(ds, newDid) ==
  IF \E i \in 1..Len(ds) : ds[i].did = newDid.did
  THEN [i \in 1..Len(ds) |-> IF ds[i].did = newDid.did THEN newDid ELSE ds[i]]
  ELSE Append(ds, newDid)

\* this.vcs.set(newVc.vcId, newVc)
createVc(vs, newVc) ==
  IF \E i \in 1..Len(vs) : vs[i].vcId = newVc.vcId
  THEN [i \in 1..Len(vs) |-> IF vs[i].vcId = newVc.vcId THEN newVc ELSE vs[i]]
  ELSE Append(vs, newVc)

getStats(ds, vs) ==
  [totalDids |-> Len(ds), vcsIssued |-> Len(vs), verified |-> Len(vs),
   activeKeys |-> Len(ds)]

(***************************************************************************)
(* Requests.                                                               *)
(***************************************************************************)
Schemes == {"ed25519", "secp256k1"}
KeyTypeInputs == Schemes \cup {"rsa"}
MethodInputs == {"did:key", "did:web"}
Alice == <<"did", ":", "example", ":", "alice">>
Alyce == <<"did", ":", "example", ":", "alyce">>
Ada == << <<"name", JString(<<"Ada">>)>> >>
Ava == << <<"name", JString(<<"Ava">>)>> >>
\* a claims object with a property named id
WithId == << <<"name", JString(<<"Ada">>)>>, <<"id", JString(Alyce)>> >>
\* a claims object with a string of more bytes than InputLimit
Long == << <<"name", JString(<<LongWord>>)>> >>
ClaimsInputs == {Ada, WithId, Long}
\* new Date().toISOString()
Instants == {<<"2025-06-19T00:00:0", "0", ".000Z">>}
\* uuidv4(): the n-th call returns a value no earlier call returned
uuidv4(n) == <<HexDigits[n + 1]>>
UnknownDid == <<"did", ":", "key", ":", "z", "0">>
\* what a client can ask /api/resolve for besides the DIDs there are
ResolveInputs == {UnknownDid, <<"key", ":", "z">>, <<>>}

\* credentialSubject with the value of one claim replaced
TamperedSubject(credential, claims) ==
  With(credential, "credentialSubject",
       JObject(spread(Get(Prop(credential, "credentialSubject")).members, claims)))

\* what a client can send to /api/verify-vc having received credential c:
\* the schema asks for an object and lets every value of a property through
Presentations(c) ==
  {c, Without(c, "issuer"), With(c, "issuer", JString(UnknownDid)),
   With(c, "issuer", JObject(<<>>)), Without(c, "proof")}
  \cup { TamperedSubject(c, claims) : claims \in {Ava, WithId} }

Respond(route, status, body) == [route |-> route, status |-> status, body |-> body]

(***************************************************************************)
(* routes.ts: the records the handlers store                               *)
(***************************************************************************)
\* part_003:39-46: the record storage.createDid stores for what
\* generateDidKey made
didRecord(id, made, method, keyType, now) ==
  [id |-> id,
   did |-> made.did,
   method |-> method,
   keyType |-> keyType,
   publicKey |-> made.keyPair.publicKeyHex,
   privateKey |-> made.keyPair.privateKeyHex,
   didDocument |-> made.didDocument,
   createdAt |-> now]

\* faulty variant: every method the schema lets through is served
anyMethod(method) == TRUE

\* part_003:31: the one method the handler serves
isDidKey(method) == method = "did:key"

\* part_003:132-142: the record storage.createVc stores for a credential
\* issueVerifiableCredential made: id, issuer and issuanceDate are strings
\* of it, subject the id of its credentialSubject, whatever the claims made
\* of it
vcRecord(id, credential, credentialType, claims, now) ==
  [id |-> id,
   vcId |-> Get(Prop(credential, "id")).v,
   issuer |-> Get(Prop(credential, "issuer")).v,
   subject |-> Prop(Get(Prop(credential, "credentialSubject")), "id"),
   credentialType |-> credentialType,
   claims |-> claims,
   credential |-> credential,
   issuanceDate |-> Get(Prop(credential, "issuanceDate")).v,
   createdAt |-> now]

\* part_003:161: verifyVcSchema.safeParse(req.body).success; the schema
\* (part_004:669-671, z.record) asks for a credential that is an object, and
\* an array or null is none
verifyVcSchema(credential) == IsSome(credential) /\ Get(credential).t = "object"

\* part_003:178: this.dids.get(credential.issuer); the keys of the Map are
\* strings, and a value that is no string is none of them
getIssuer(ds, issuer) == IF issuer.t = "string" THEN getDid(ds, issuer.v) ELSE None

(***************************************************************************)
(* verifyVerifiableCredential called on its own.  The arguments are drawn  *)
(* from credentials the service issued, as issued or damaged, and from     *)
(* well-formed and malformed keys and key-type tags.                       *)
(***************************************************************************)
\* replacements of one property of credentialSubject, one byte changed
Tampers == {Ava, << <<"id", JString(Alyce)>> >>}

\* what issueVerifiableCredential returns for the n-th key pair
Issued ==
  [keyType \in Schemes, n \in 1..MaxDids |->
     LET made == generateDidKey(keyType, randomPrivateKey(n))
     IN [credential |->
           issueVerifiableCredential(made.did, Alice, <<"IdentityCredential">>, Ada,
                                     made.keyPair.privateKeyHex, keyType,
                                     CHOOSE now \in Instants : TRUE, uuidv4(n)).value,
         publicKey |-> made.keyPair.publicKeyHex,
         keyType |-> keyType]]

OtherProofType(proofType) ==
  IF proofType = JString(<<"Ed25519Signature2020">>)
  THEN JString(<<"EcdsaSecp256k1Signature2019">>)
  ELSE JString(<<"Ed25519Signature2020">>)

\* the credential as a client can send it with the same properties: id
\* before @context, and a property the code does not name after
\* credentialSubject
Rearranged(c) ==
  {JObject(SelectSeq(c.members, LAMBDA p : p[1] = "id")
             \o SelectSeq(c.members, LAMBDA p : p[1] # "id")),
   JObject(SelectSeq(c.members, LAMBDA p : p[1] # "proof")
             \o << <<"name", JString(<<"Ada">>)>> >>
             \o SelectSeq(c.members, LAMBDA p : p[1] = "proof"))}

\* the credential with structural fields missing, falsy or of another type,
\* or its properties rearranged
StructureVariants(c) ==
  {c, Without(c, "@context"), With(c, "@context", JLiteral("null")),
   Without(c, "type"),
   Without(c, "issuer"), With(c, "issuer", JString(<<>>)),
   With(c, "issuer", JObject(<<>>)),
   Without(c, "credentialSubject"),
   With(c, "credentialSubject", JObject(<< <<"name", JString(<<"Ada">>)>> >>))}
    \cup Rearranged(c)

\* the credential with property key of its proof set, or removed
ProofWith(c, key, value) == With(c, "proof", With(Get(Prop(c, "proof")), key, value))
ProofWithout(c, key) == With(c, "proof", Without(Get(Prop(c, "proof")), key))

\* the credential with created, verificationMethod or proofPurpose of its
\* proof changed, one at a time and all three at once; the proof is an
\* object
ProofEdits(c) ==
  LET created == JString(<<"2025-06-19T00:00:0", "1", ".000Z">>)
      method == JString(Alyce \o <<"#", "key">>)
      purpose == JString(<<"example">>)
  IN {ProofWith(c, "created", created),
      ProofWith(c, "verificationMethod", method),
      ProofWith(c, "proofPurpose", purpose),
      ProofWith(ProofWith(ProofWith(c, "created", created),
                          "verificationMethod", method),
                "proofPurpose", purpose)}

\* characters put in the place of the first character of proofValue: the
\* multibase prefix the issuer writes, a Base64 digit and one that is none
LeadingCharacters == {"z", "m", "#"}

\* the credential with the first character of proofValue replaced;
\* proofValue is a string and not empty
WithLeading(c, ch) ==
  ProofWith(c, "proofValue", JString(<<ch>> \o Tail(Get(proofValueOf(c)).v)))
\* the credential with its proof or its signed content changed; the last
\* proofValue is the signature as DER writes it
ProofVariants(c) ==
  LET proof == Get(Prop(c, "proof"))
      value == Get(Prop(proof, "proofValue")).v
  IN {c,
      Without(c, "proof"),
      With(c, "proof", JArray(<<>>)),
      ProofWithout(c, "proofValue"),
      ProofWith(c, "proofValue", JString(<<>>)),
      ProofWith(c, "proofValue", JObject(<<>>)),
      ProofWith(c, "proofValue", JArray(<<JString(value)>>)),
      ProofWith(c, "type", OtherProofType(Get(Prop(proof, "type")))),
      ProofWith(c, "type", JString(<<"undefined">>)),
      ProofWith(c, "proofValue", JString(SubSeq(value, 1, Len(value) - 4))),
      ProofWith(c, "proofValue", JString(SubSeq(value, 1, Len(value) - 2))),
      ProofWith(c, "proofValue", JString(<<"z", "#", "=">>)),
      ProofWith(c, "proofValue",
                JString(<<"z">> \o toBase64(toDERRawBytes(fromBase64(Tail(value))))))}
     \cup { TamperedSubject(c, claims) : claims \in Tampers }
     \cup ProofEdits(c)
     \cup { WithLeading(c, ch) : ch \in LeadingCharacters }

\* hex strings passed as issuerPublicKey: the keys there are, the
\* secp256k1 keys uncompressed too, and two that are no key
PublicKeyInputs ==
  { generateEd25519KeyPair(sk).publicKeyHex : sk \in PrivateKeys }
    \cup { generateSecp256k1KeyPair(sk).publicKeyHex : sk \in PrivateKeys }
    \cup { toHex(secp256k1Uncompressed(sk)) : sk \in PrivateKeys }
    \cup { <<>>, <<"z", "z">> }

VerifyInputs ==
  { [credential |-> c, issuerPublicKey |-> pk, keyType |-> kt] :
      c \in UNION { UNION { StructureVariants(d) : d \in ProofVariants(Issued[i].credential) } :
                      i \in DOMAIN Issued },
      pk \in PublicKeyInputs,
      kt \in KeyTypeInputs }

InitVerify ==
  /\ dids = <<>>
  /\ vcs = <<>>
  /\ currentDidId = 1
  /\ currentVcId = 1
  /\ response = Respond("none", 0, <<>>)
  /\ input \in VerifyInputs
  /\ output = None
  /\ uuids = 0
  /\ library \in Libraries

\* one call of verifyVerifiableCredential: output is what VerifyRun tells of
\* it, the result returned and the signature primitives invoked
Verify ==
  /\ output = None
  /\ output' = Some(VerifyRun(input.credential, input.issuerPublicKey, input.keyType))
  /\ UNCHANGED <<store, response, given, uuids>>

SpecVerify == InitVerify /\ [][Verify]_vars

(***************************************************************************)
(* crypto.ts called on its own: a message is signed with the private key   *)
(* of a generated pair and the signature verified with its public key.     *)
(***************************************************************************)
MessageWords == {"{", "Ada", "Ava", ContextUrl, LongWord}

\* messages of one to MaxWords tokens
MaxWords == 2
RECURSIVE TextsOf(_)
TextsOf(n) ==
  IF n = 0 THEN {<<>>}
  ELSE { Append(text, w) : text \in TextsOf(n - 1), w \in MessageWords }
MessageInputs == UNION { TextsOf(n) : n \in 1..MaxWords }

InitCrypto ==
  /\ dids = <<>>
  /\ vcs = <<>>
  /\ currentDidId = 1
  /\ currentVcId = 1
  /\ response = Respond("none", 0, <<>>)
  /\ input \in { [scheme |-> scheme, n |-> n, message |-> message] :
                   scheme \in Schemes, n \in 1..MaxDids, message \in MessageInputs }
  /\ output = None
  /\ uuids = 0
  /\ library \in Libraries

\* part_002:36-54: what verifying the signature gives, or the exception of
\* signing
roundTrip(scheme, message, keyPair, signed) ==
  IF signed.threw
  THEN [threw |-> TRUE, message |-> signed.message, verified |-> FALSE]
  ELSE IF scheme = "ed25519"
  THEN [threw |-> verifyEd25519(signed.value, message, keyPair.publicKey).threw,
        message |-> verifyEd25519(signed.value, message, keyPair.publicKey).message,
        verified |-> verifyEd25519(signed.value, message, keyPair.publicKey).value]
  ELSE [threw |-> verifySecp256k1(signed.value, message, keyPair.publicKey).threw,
        message |-> verifySecp256k1(signed.value, message, keyPair.publicKey).message,
        verified |-> verifySecp256k1(signed.value, message, keyPair.publicKey).value]

\* generate the n-th key pair, sign input.message, verify the signature
SignThenVerify ==
  /\ output = None
  /\ \E keyPair \in {keyPairOf(input.scheme, randomPrivateKey(input.n))} :
       output' = Some(roundTrip(input.scheme, input.message, keyPair,
                                signatureOf(input.message, keyPair.privateKey, input.scheme)))
  /\ UNCHANGED <<store, response, given, uuids>>

SpecCrypto == InitCrypto /\ [][SignThenVerify]_vars

(***************************************************************************)
(* did.ts:39-44 on its own: the DIDs of two public keys.                   *)
(***************************************************************************)
KeyBytes == {0, 57, 255}
RECURSIVE BytesOf(_)
BytesOf(n) ==
  IF n = 0 THEN {<<>>}
  ELSE { Append(bytes, b) : bytes \in BytesOf(n - 1), b \in KeyBytes }
\* public keys of KeyLen bytes (Ed25519) and of one byte more (secp256k1),
\* under either scheme tag
KeyInputs ==
  { [keyType |-> keyType, publicKey |-> publicKey] :
      keyType \in Schemes, publicKey \in BytesOf(KeyLen) \cup BytesOf(KeyLen + 1) }

InitDid ==
  /\ dids = <<>>
  /\ vcs = <<>>
  /\ currentDidId = 1
  /\ currentVcId = 1
  /\ response = Respond("none", 0, <<>>)
  /\ input \in { [a |-> a, b |-> b] : a \in KeyInputs, b \in KeyInputs }
  /\ output = None
  /\ uuids = 0
  /\ library \in Libraries

\* derive the DID of each of the two keys
DeriveDids ==
  /\ output = None
  /\ output' = Some([a |-> didOfKey(input.a.keyType, input.a.publicKey),
                     b |-> didOfKey(input.b.keyType, input.b.publicKey)])
  /\ UNCHANGED <<store, response, given, uuids>>

SpecDid == InitDid /\ [][DeriveDids]_vars

(***************************************************************************)
(* issueVerifiableCredential called on its own, for the n-th key pair, and *)
(* what a verifier then does with the credential it returned.              *)
(***************************************************************************)
\* claims with a string outside ASCII and a nested object, and with a quote
\* and a lone surrogate
Nested ==
  << <<"name", JString(<<"Zo", "U+00EB">>)>>,
     <<"address", JObject(<< <<"city", JString(<<"Paris">>)>> >>)>> >>
Quoted == << <<"name", JString(<<"Ada", "\"", "U+D800">>)>> >>
IssueInputs ==
  { [n |-> n, keyType |-> keyType, subjectDid |-> subjectDid, claims |-> claims] :
      n \in 1..MaxDids, keyType \in KeyTypeInputs, subjectDid \in {Alice, Alyce},
      claims \in {Ada, WithId, Nested, Quoted, Long} }

InitIssue ==
  /\ dids = <<>>
  /\ vcs = <<>>
  /\ currentDidId = 1
  /\ currentVcId = 1
  /\ response = Respond("none", 0, <<>>)
  /\ input \in IssueInputs
  /\ output = None
  /\ uuids = 0
  /\ library \in Libraries

\* what the call gave and what a verifier makes of it: signed is the text
\* handed to the signature primitive (vc.ts:50), recomputed the text
\* vc.ts:112-113 makes of the credential returned, reparsed the text they
\* make of it after it went through JSON.stringify and JSON.parse, result
\* what verifying it against the issuer's public key returns
issueOutcome(issued, signed, publicKey, keyType) ==
  IF issued.threw
  THEN [threw |-> TRUE, message |-> issued.message, credential |-> None,
        signed |-> signed, recomputed |-> None, reparsed |-> None, result |-> None]
  ELSE [threw |-> FALSE, message |-> "", credential |-> Some(issued.value),
        signed |-> signed,
        recomputed |-> Some(JSONstringify(withoutProof(issued.value))),
        reparsed |->
          Some(JSONstringify(withoutProof(
                 JSONparse(JSONstringify(issued.value))))),
        result |-> Some(verifyVerifiableCredential(issued.value, publicKey, keyType))]

\* one call of issueVerifiableCredential with the key material generateDidKey
\* made
Issue ==
  /\ output = None
  /\ \E made \in {generateDidKey(input.keyType, randomPrivateKey(input.n))} :
     \E now \in Instants :
       output' =
         Some(issueOutcome(
                issueVerifiableCredential(made.did, input.subjectDid,
                                          <<"IdentityCredential">>, input.claims,
                                          made.keyPair.privateKeyHex, input.keyType,
                                          now, uuidv4(input.n)),
                JSONstringify(unsignedCredential(made.did, input.subjectDid,
                                                 <<"IdentityCredential">>, input.claims,
                                                 now, uuidv4(input.n))),
                made.keyPair.publicKeyHex, input.keyType))
  /\ UNCHANGED <<store, response, given, uuids>>

SpecIssue == InitIssue /\ [][Issue]_vars
(***************************************************************************)
(* routes.ts.  The handlers run concurrently.  A handler runs from one     *)
(* await to the next without interruption, and the other handlers run at   *)
(* its awaits.  The methods of MemStorage and the functions of vc.ts hold  *)
(* no await: the body of each runs to its end when it is called, and the   *)
(* handler goes on with what it returned, or threw, at a later turn.  Here *)
(* input holds the requests made and output what each handler has come to: *)
(* pc, the await the handler stands at ("start" before the handler is      *)
(* called, "done" when it has answered); local, the value it awaits;       *)
(* found, the DID record a verify handler read; response, the response it  *)
(* sent.                                                                   *)
(***************************************************************************)
Request(kind) ==
  [kind |-> kind, keyType |-> "", method |-> "did:key", subjectDid |-> Alice,
   credentialType |-> <<"IdentityCredential">>, claims |-> <<>>,
   credential |-> None, did |-> <<>>]

\* registrations of either scheme, of a key type the schema refuses and of
\* a method the handler refuses
RegisterRequests ==
  { [Request("register") EXCEPT !.keyType = keyType] : keyType \in KeyTypeInputs }
    \cup {[Request("register") EXCEPT !.keyType = "ed25519", !.method = "did:web"]}
\* issuances with each claims object, and one the schema refuses
IssueRequests ==
  { [Request("issue") EXCEPT !.claims = claims] : claims \in ClaimsInputs }
    \cup {[Request("issue") EXCEPT !.claims = Ada, !.subjectDid = <<>>]}
\* verifications of what a client can make of the credentials stored, and
\* one of a credential that is no object
VerifyRequests(vs) ==
  { [Request("verify") EXCEPT !.credential = Some(credential)] :
      credential \in UNION { Presentations(vs[i].credential) : i \in 1..Len(vs) }
                       \cup {JArray(<<>>)} }
\* the DIDs a registration can make, and strings that are none of them
ResolveRequests ==
  { [Request("resolve") EXCEPT !.did = did] :
      did \in { generateDidKey(keyType, sk).did : keyType \in Schemes, sk \in PrivateKeys }
                \cup ResolveInputs }
StatsRequests == {Request("stats")}

\* the store after construction, and the store after a DID of the scheme was
\* registered and issued one credential
EmptyStore ==
  [dids |-> <<>>, vcs |-> <<>>, currentDidId |-> 1, currentVcId |-> 1, uuids |-> 0]
StoreAfter(keyType) ==
  [dids |-> <<didRecord(1, generateDidKey(keyType, randomPrivateKey(1)), "did:key",
                        keyType, CHOOSE now \in Instants : TRUE)>>,
   vcs |-> <<vcRecord(1, Issued[keyType, 1].credential, <<"IdentityCredential">>, Ada,
                      CHOOSE now \in Instants : TRUE)>>,
   currentDidId |-> 2,
   currentVcId |-> 2,
   uuids |-> 1]
Stores == {EmptyStore} \cup { StoreAfter(keyType) : keyType \in Schemes }

\* three requests in flight: a registration, an issuance, and a third
\* request: a registration, a resolution, a statistics request, a
\* verification or, of a store that holds no credential, a second issuance
RequestLists(st) ==
  { <<r1, r2, r3>> :
      r1 \in RegisterRequests, r2 \in IssueRequests,
      r3 \in { r \in RegisterRequests : r.keyType \in Schemes /\ r.method = "did:key" }
               \cup { r \in IssueRequests :
                        st.vcs = <<>> /\ r.claims = Ada /\ r.subjectDid # <<>> }
               \cup ResolveRequests \cup StatsRequests \cup VerifyRequests(st.vcs) }

Started == [pc |-> "start", local |-> None, found |-> None, response |-> None]

\* The public keys the handlers pass to the primitives are those
\* generateDidKey stored, with the key type stored with them; they have the
\* length of their scheme, for which the releases of the library do not
\* differ, and Init takes the later release.

Init ==
  \E st \in Stores :
    /\ dids = st.dids
    /\ vcs = st.vcs
    /\ currentDidId = st.currentDidId
    /\ currentVcId = st.currentVcId
    /\ response = Respond("none", 0, <<>>)
    /\ input \in RequestLists(st)
    /\ output = [i \in 1..3 |-> Started]
    /\ uuids = st.uuids
    /\ library = "ensures the key length"

\* handler i goes on to its next await with the value it awaits
Await(i, pc, value) ==
  /\ output' = [output EXCEPT ![i] = [@ EXCEPT !.pc = pc, !.local = Some(value)]]
  /\ UNCHANGED response

\* handler i sends its response and ends
Finish(i, sent) ==
  /\ output' = [output EXCEPT ![i] = [@ EXCEPT !.pc = "done", !.local = None,
                                                !.response = Some(sent)]]
  /\ response' = sent

\* part_003:21-48: up to await storage.createDid(didData)
RegisterCall(i) ==
  /\ input[i].kind = "register"
  /\ output[i].pc = "start"
  /\ IF input[i].keyType \notin Schemes \/ input[i].method \notin MethodInputs
     THEN Finish(i, Respond("register", 400, <<"Invalid request">>)) /\ UNCHANGED store
     ELSE IF ~isDidKey(input[i].method)
     THEN /\ Finish(i, Respond("register", 400,
                               <<"Only did:key method is currently supported">>))
          /\ UNCHANGED store
     ELSE \E now \in Instants :
          \E savedDid \in {didRecord(currentDidId,
                                     generateDidKey(input[i].keyType,
                                                    randomPrivateKey(currentDidId)),
                                     input[i].method, input[i].keyType, now)} :
             /\ currentDidId' = currentDidId + 1
             /\ dids' = createDid(dids, savedDid)
             /\ Await(i, "created", savedDid)
             /\ UNCHANGED <<vcs, currentVcId>>
  /\ UNCHANGED <<given, uuids>>

\* part_003:50-55
RegisterRespond(i) ==
  /\ output[i].pc = "created"
  /\ Finish(i, Respond("register", 200,
                       [did |-> Get(output[i].local).did,
                        publicKey |-> Get(output[i].local).publicKey,
                        didDocument |-> Get(output[i].local).didDocument,
                        keyType |-> Get(output[i].local).keyType]))
  /\ UNCHANGED <<store, given, uuids>>

\* part_003:69-77: up to await storage.getDid(did)
ResolveCall(i) ==
  /\ input[i].kind = "resolve"
  /\ output[i].pc = "start"
  /\ IF Len(input[i].did) < 2 \/ input[i].did[1] # "did" \/ input[i].did[2] # ":"
     THEN Finish(i, Respond("resolve", 400, <<"Invalid DID format">>))
     ELSE Await(i, "resolved", getDid(dids, input[i].did))
  /\ UNCHANGED <<store, given, uuids>>

\* part_003:79-89
ResolveRespond(i) ==
  /\ output[i].pc = "resolved"
  /\ \E savedDid \in {Get(output[i].local)} :
       Finish(i, IF ~IsSome(savedDid) THEN Respond("resolve", 404, <<"DID not found">>)
                 ELSE Respond("resolve", 200,
                              [didDocument |-> Get(savedDid).didDocument,
                               keyType |-> Get(savedDid).keyType,
                               publicKey |-> Get(savedDid).publicKey]))
  /\ UNCHANGED <<store, given, uuids>>

\* part_003:103-114: up to await storage.getAllDids()
IssueCall(i) ==
  /\ input[i].kind = "issue"
  /\ output[i].pc = "start"
  /\ IF input[i].subjectDid = <<>> \/ input[i].credentialType = <<>>
     THEN Finish(i, Respond("issue-vc", 400, <<"Invalid request">>))
     ELSE Await(i, "listed", getAllDids(dids))
  /\ UNCHANGED <<store, given, uuids>>

\* part_003:115-130: up to await issueVerifiableCredential(...); what the
\* handler awaits is the credential or the exception of the call.  The call
\* draws the id of the credential from uuidv4() (vc.ts:33).
IssueSign(i) ==
  /\ output[i].pc = "listed"
  /\ IF Len(Get(output[i].local)) = 0
     THEN /\ Finish(i, Respond("issue-vc", 400,
                        <<"No issuer DID available. Please register a DID first.">>))
          /\ UNCHANGED uuids
     ELSE \E issuerDid \in {Get(output[i].local)[1]} :
          \E now \in Instants :
            /\ uuids' = uuids + 1
            /\ Await(i, "issued",
                     issueVerifiableCredential(
                       issuerDid.did, input[i].subjectDid, input[i].credentialType,
                       input[i].claims, issuerDid.privateKey, issuerDid.keyType,
                       now, uuidv4(uuids + 1)))
  /\ UNCHANGED <<store, given>>

\* part_003:132-142: up to await storage.createVc(vcData), or to the catch
\* block (part_003:149-155) when issueVerifiableCredential threw
IssueSave(i) ==
  /\ output[i].pc = "issued"
  /\ \E issued \in {Get(output[i].local)} :
       IF issued.threw
       THEN /\ Finish(i, Respond("issue-vc", 500,
                         <<"Failed to issue verifiable credential", issued.message>>))
            /\ UNCHANGED store
       ELSE \E now \in Instants :
            \E savedVc \in {vcRecord(currentVcId, issued.value, input[i].credentialType,
                                     input[i].claims, now)} :
              /\ currentVcId' = currentVcId + 1
              /\ vcs' = createVc(vcs, savedVc)
              /\ Await(i, "saved", savedVc)
              /\ UNCHANGED <<dids, currentDidId>>
  /\ UNCHANGED <<given, uuids>>

\* part_003:144-147
IssueRespond(i) ==
  /\ output[i].pc = "saved"
  /\ Finish(i, Respond("issue-vc", 200,
                       [credential |-> Get(output[i].local).credential,
                        vcId |-> Get(output[i].local).vcId]))
  /\ UNCHANGED <<store, given, uuids>>

\* part_003:161-178: up to await storage.getDid(credential.issuer)
VerifyCall(i) ==
  /\ input[i].kind = "verify"
  /\ output[i].pc = "start"
  /\ IF ~verifyVcSchema(input[i].credential)
     THEN Finish(i, Respond("verify-vc", 400, <<"Invalid request">>))
     ELSE IF ~Truthy(Prop(Get(input[i].credential), "issuer"))
     THEN Finish(i, Respond("verify-vc", 400, <<"Credential missing issuer">>))
     ELSE Await(i, "found",
                getIssuer(dids, Get(Prop(Get(input[i].credential), "issuer"))))
  /\ UNCHANGED <<store, given, uuids>>

\* part_003:179-189: up to await verifyVerifiableCredential(...)
VerifyCheck(i) ==
  /\ output[i].pc = "found"
  /\ IF ~IsSome(Get(output[i].local))
     THEN Finish(i, Respond("verify-vc", 404, <<"Issuer DID not found">>))
     ELSE \E issuerDidData \in {Get(Get(output[i].local))} :
          \E run \in {VerifyRun(Get(input[i].credential), issuerDidData.publicKey,
                                issuerDidData.keyType)} :
             /\ output' = [output EXCEPT ![i] = [@ EXCEPT !.pc = "checked",
                                                          !.local = Some(run),
                                                          !.found = Some(issuerDidData)]]
             /\ UNCHANGED response
  /\ UNCHANGED <<store, given, uuids>>

\* part_003:191-199
VerifyRespond(i) ==
  /\ output[i].pc = "checked"
  /\ Finish(i, IF Get(output[i].local).threw
               THEN Respond("verify-vc", 500,
                            <<"Failed to verify credential", Get(output[i].local).message>>)
               ELSE Respond("verify-vc", 200, Get(output[i].local).result))
  /\ UNCHANGED <<store, given, uuids>>

\* part_003:205: up to await storage.getStats()
StatsCall(i) ==
  /\ input[i].kind = "stats"
  /\ output[i].pc = "start"
  /\ Await(i, "counted", getStats(dids, vcs))
  /\ UNCHANGED <<store, given, uuids>>

\* part_003:206
StatsRespond(i) ==
  /\ output[i].pc = "counted"
  /\ Finish(i, Respond("stats", 200, Get(output[i].local)))
  /\ UNCHANGED <<store, given, uuids>>

Next ==
  \/ \E i \in DOMAIN input : RegisterCall(i)
  \/ \E i \in DOMAIN input : RegisterRespond(i)
  \/ \E i \in DOMAIN input : ResolveCall(i)
  \/ \E i \in DOMAIN input : ResolveRespond(i)
  \/ \E i \in DOMAIN input : IssueCall(i)
  \/ \E i \in DOMAIN input : IssueSign(i)
  \/ \E i \in DOMAIN input : IssueSave(i)
  \/ \E i \in DOMAIN input : IssueRespond(i)
  \/ \E i \in DOMAIN input : VerifyCall(i)
  \/ \E i \in DOMAIN input : VerifyCheck(i)
  \/ \E i \in DOMAIN input : VerifyRespond(i)
  \/ \E i \in DOMAIN input : StatsCall(i)
  \/ \E i \in DOMAIN input : StatsRespond(i)

Spec == Init /\ [][Next]_vars
(***************************************************************************)
(* Properties.  The vocabulary below states what a call was given and what *)
(* it answered without going through the definitions of the verifier.      *)
(***************************************************************************)
Malformed == "Invalid credential structure"
MissingProof == "Missing or invalid proof"
SchemeMismatch == "Unsupported signature type or key mismatch"
InvalidSignature == "Invalid signature"
NoSubstring == "Verification failed: proof.proofValue.substring is not a function"

\* the reasons of a result, <<>> when it has no errors list
ReasonsOf(result) == IF IsSome(result.errors) THEN Get(result.errors) ELSE <<>>
Reports(result, reason) == \E k \in 1..Len(ReasonsOf(result)) : ReasonsOf(result)[k] = reason

\* the proof type a key type signs with, None for an unknown key type
ExpectedProofType(keyType) ==
  IF keyType = "ed25519" THEN Some(JString(<<"Ed25519Signature2020">>))
  ELSE IF keyType = "secp256k1" THEN Some(JString(<<"EcdsaSecp256k1Signature2019">>))
  ELSE None

\* the four fields the structural check reads
StructuralFields == {"@context", "type", "issuer", "credentialSubject"}

\* the proof of a credential and the proofValue of its proof, None where
\* there is none
GivenProof(c) == Prop(c, "proof")
GivenProofValue(c) ==
  IF GivenProof(c) = None THEN None ELSE Prop(Get(GivenProof(c)), "proofValue")

\* a property that is absent or holds the empty string, null, false or 0
Falsy(opt) ==
  \/ opt = None
  \/ Get(opt) = JString(<<>>)
  \/ Get(opt) = JLiteral("null")
  \/ Get(opt) = JLiteral("false")
  \/ Get(opt) = JNumber(<<"0">>)

LacksField(c) == \E key \in StructuralFields : Prop(c, key) = None
LacksProofValue(c) ==
  GivenProofValue(c) = None \/ GivenProofValue(c) = Some(JString(<<>>))
\* the structural and the proof-presence check pass
PassesChecks(c) ==
  /\ \A key \in StructuralFields : ~Falsy(Prop(c, key))
  /\ ~Falsy(GivenProof(c))
  /\ ~Falsy(GivenProofValue(c))
\* the proof is an object, and its proofValue a string that is not empty
HasProofObject(c) == GivenProof(c) # None /\ Get(GivenProof(c)).t = "object"
HasSignatureText(c) ==
  /\ GivenProofValue(c) # None
  /\ Get(GivenProofValue(c)).t = "string"
  /\ Get(GivenProofValue(c)).v # <<>>
HasMismatch(c, keyType) ==
  /\ GivenProof(c) # None
  /\ \/ ExpectedProofType(keyType) = None
     \/ Prop(Get(GivenProof(c)), "type") # ExpectedProofType(keyType)

\* the signature primitive of the key type accepts the signature in
\* proofValue, a string, over the credential without its proof
PrimitiveAccepts(c, issuerPublicKey, keyType) ==
  LET text == JSONstringify(Without(c, "proof"))
      signatureBytes == fromBase64(Tail(Get(GivenProofValue(c)).v))
      call == IF keyType = "ed25519"
              THEN verifyEd25519(signatureBytes, text, fromHex(issuerPublicKey))
              ELSE verifySecp256k1(signatureBytes, text, fromHex(issuerPublicKey))
  IN HasSignatureText(c) /\ ~call.threw /\ call.value

\* the call made and its outcome, once Verify has run
Called == IsSome(output)
Outcome == Get(output).result

\* C1: every credential the store holds was issued through /api/issue-vc by
\* a registered DID; verified unchanged against that DID's stored public key
\* and key type it gives verified = true, issuer equal to the registered DID
\* and no errors list, for either key scheme and any claims
C1_IssuedCredentialVerifies ==
  \A i \in 1..Len(vcs) :
    LET credential == vcs[i].credential
        issuerDidData == getDid(dids, Get(Prop(credential, "issuer")).v)
        result == verifyVerifiableCredential(credential, Get(issuerDidData).publicKey,
                                             Get(issuerDidData).keyType)
    IN /\ IsSome(issuerDidData)
       /\ result.verified = TRUE
       /\ result.issuer = JString(Get(issuerDidData).did)
       /\ result.errors = None

\* a credential issued by a secp256k1 DID was presented to /api/verify-vc
\* and verified
C1_Witness ==
  /\ Len(vcs) > 0
  /\ dids[1].keyType = "secp256k1"
  /\ response.route = "verify-vc"
  /\ response.status = 200
  /\ response.body.verified = TRUE

\* the call verifies an issued credential, one property of its
\* credentialSubject changed in one byte, against the issuer's key
TamperedCall ==
  \E i \in DOMAIN Issued, claims \in Tampers :
    input = [credential |-> TamperedSubject(Issued[i].credential, claims),
             issuerPublicKey |-> Issued[i].publicKey,
             keyType |-> Issued[i].keyType]

\* C2: an issued credential with a byte of its credentialSubject changed,
\* verified against the issuer's stored public key, gives verified = false
\* with the invalid-signature reason, for either key scheme
C2_TamperedSubjectRejected ==
  Called /\ TamperedCall =>
    /\ Outcome.verified = FALSE
    /\ Reports(Outcome, InvalidSignature)

\* C3: for both schemes, every message and every generated key pair,
\* verifying the signature of the message with the pair's public key
\* returns true
C3_SignVerifyRoundTrip ==
  Called => ~Get(output).threw /\ Get(output).verified = TRUE

\* C4: a proof type that does not match the key type, or an unknown key
\* type, gives verified = false with the scheme-mismatch reason, and no
\* signature primitive is invoked
C4_MismatchAlwaysReported ==
  Called /\ HasMismatch(input.credential, input.keyType) =>
    /\ Outcome.verified = FALSE
    /\ Reports(Outcome, SchemeMismatch)
    /\ Get(output).calls = <<>>

\* C5: a credential with no proof, or a proof whose proofValue is absent or
\* empty, gives verified = false with the missing-proof reason, and the
\* result's issuer and subject are the credential's issuer and
\* credentialSubject.id, of whatever type they are, the empty string where
\* the credential has none
C5_MissingProofReported ==
  Called /\ LacksProofValue(input.credential) =>
    LET c == input.credential
        id == IF Prop(c, "credentialSubject") = None THEN None
              ELSE Prop(Get(Prop(c, "credentialSubject")), "id")
    IN /\ Outcome.verified = FALSE
       /\ Reports(Outcome, MissingProof)
       /\ Outcome.issuer = (IF Falsy(Prop(c, "issuer")) THEN JString(<<>>)
                            ELSE Get(Prop(c, "issuer")))
       /\ Outcome.subject = (IF Falsy(id) THEN Some(JString(<<>>)) ELSE id)

\* a credential without proof, its issuer and subject intact, was verified
C5_Witness ==
  /\ Called
  /\ GivenProof(input.credential) = None
  /\ Outcome.issuer # JString(<<>>)
  /\ Outcome.subject = Some(JString(Alice))
  /\ ReasonsOf(Outcome) = <<MissingProof>>

\* C6: a credential that lacks @context, type, issuer or credentialSubject
\* gives verified = false with the malformed-credential reason, whatever
\* its proof holds
C6_MalformedReported ==
  Called /\ LacksField(input.credential) =>
    /\ Outcome.verified = FALSE
    /\ Reports(Outcome, Malformed)

\* a credential without @context whose proof is the valid one it was issued
\* with was verified against the issuer's key
C6_Witness ==
  /\ Called
  /\ Prop(input.credential, "@context") = None
  /\ \E i \in DOMAIN Issued :
       /\ input.credential = Without(Issued[i].credential, "@context")
       /\ input.issuerPublicKey = Issued[i].publicKey
       /\ input.keyType = Issued[i].keyType
  /\ ReasonsOf(Outcome) = <<Malformed>>

\* C7: the errors list holds a reason for each defect the credential has:
\* a missing structural field, a missing proofValue, a proof type that does
\* not match the key type
C7_EveryDefectReported ==
  Called =>
    /\ LacksField(input.credential) => Reports(Outcome, Malformed)
    /\ LacksProofValue(input.credential) => Reports(Outcome, MissingProof)
    /\ HasMismatch(input.credential, input.keyType) => Reports(Outcome, SchemeMismatch)

\* C8: verified is true exactly when the structural and the proof-presence
\* check passed, the proof type matched the key type and the signature
\* primitive accepted the signature over the credential without its proof
C8_VerifiedIffAllPass ==
  Called =>
    (Outcome.verified = TRUE <=>
       /\ PassesChecks(input.credential)
       /\ ~HasMismatch(input.credential, input.keyType)
       /\ PrimitiveAccepts(input.credential, input.issuerPublicKey, input.keyType))

\* an Ed25519 credential was verified and accepted
C8_Witness ==
  /\ Called
  /\ input.keyType = "ed25519"
  /\ Outcome.verified = TRUE
  /\ Get(output).calls = <<"verifyEd25519">>

\* the bytes proofValue, a string, decodes to, and those issuerPublicKey
\* decodes to
GivenSignature == fromBase64(Tail(Get(GivenProofValue(input.credential)).v))
GivenKey == fromHex(input.issuerPublicKey)

\* the lengths the encodings of a signature and of a public key of the key
\* type have: 64 bytes and KeyLen bytes for ed25519; for secp256k1 64 bytes
\* or what DER makes of them, and a point compressed or uncompressed
WrongLength ==
  IF input.keyType = "ed25519"
  THEN Len(GivenSignature) # SigLen \/ Len(GivenKey) # KeyLen
  ELSE \/ Len(GivenSignature) # SigLen /\ ~isDER(GivenSignature)
       \/ Len(GivenKey) \notin {KeyLen + 1, 2 * KeyLen + 1}

\* the signature or the key of the call is malformed: the checks before the
\* signature pass, and proofValue is no string, or the signature or the key
\* has not the length of one
FaultyCall ==
  /\ PassesChecks(input.credential)
  /\ ~HasSignatureText(input.credential) \/ WrongLength

\* the reasons the code words itself; every other reason is the message of
\* an exception the catch block reports
OwnReasons == {Malformed, MissingProof, SchemeMismatch, InvalidSignature}

\* C9: verification never ends with an exception, whatever the credential,
\* the public key and the key type are, and a call whose signature or key
\* is of the wrong length or does not decode returns verified = false with
\* a reason in errors
C9_NeverThrows ==
  Called =>
    /\ ~Get(output).threw
    /\ FaultyCall => Outcome.verified = FALSE /\ ReasonsOf(Outcome) # <<>>

\* an Ed25519 proof whose signature is too short was verified against the
\* key of its issuer: the primitive threw, the call returned, and the one
\* reason of the result is the message of the exception
C9_Witness ==
  /\ Called
  /\ FaultyCall
  /\ HasSignatureText(input.credential)
  /\ Len(GivenSignature) < SigLen
  /\ Len(GivenKey) = KeyLen
  /\ Get(output).calls = <<"verifyEd25519">>
  /\ ~Get(output).threw
  /\ Outcome.verified = FALSE
  /\ Len(ReasonsOf(Outcome)) = 1
  /\ ReasonsOf(Outcome)[1] \notin OwnReasons

\* C10: the DID is a function of scheme and key bytes, and two different
\* public keys, of one scheme or of two, never have the same DID
C10_DidInjective ==
  Called =>
    /\ Get(output).a = didOfKey(input.a.keyType, input.a.publicKey)
    /\ input.a = input.b <=> Get(output).a = Get(output).b

\* the same key bytes under the two schemes gave two DIDs
C10_Witness ==
  /\ Called
  /\ input.a.keyType # input.b.keyType
  /\ input.a.publicKey = input.b.publicKey
  /\ Get(output).a # Get(output).b

\* the part of a did:key DID after "did:key:"
MultibaseSuffix(did) == SubSeq(did, 5, Len(did))
\* the id of the verification method of a did:key DID
KeyId(did) == did \o <<"#">> \o MultibaseSuffix(did)

\* C11: in every DID document generateDidKey produced, verificationMethod
\* has exactly one entry, its id is the DID, '#' and the multibase suffix of
\* the DID and its controller is the DID; authentication, assertionMethod,
\* capabilityInvocation and capabilityDelegation each hold that id and
\* nothing else
C11_DocumentNamesOneKey ==
  \A i \in 1..Len(dids) :
    LET did == dids[i].did
        doc == dids[i].didDocument
    IN /\ doc.id = did
       /\ Len(doc.verificationMethod) = 1
       /\ doc.verificationMethod[1].id = KeyId(did)
       /\ doc.verificationMethod[1].controller = did
       /\ doc.authentication = <<KeyId(did)>>
       /\ doc.assertionMethod = <<KeyId(did)>>
       /\ doc.capabilityInvocation = <<KeyId(did)>>
       /\ doc.capabilityDelegation = <<KeyId(did)>>

\* a DID of each scheme was registered and the document of the second
\* returned
C11_Witness ==
  /\ Len(dids) = 2
  /\ dids[1].keyType # dids[2].keyType
  /\ response.route = "register"
  /\ response.status = 200
  /\ response.body.didDocument = dids[2].didDocument

\* C12: the proof of every issued credential names as verificationMethod
\* the issuer DID, '#' and the multibase suffix of the issuer DID, which is
\* the one id in assertionMethod of the issuer's DID document, and its
\* proofPurpose is assertionMethod
C12_ProofNamesIssuerKey ==
  \A i \in 1..Len(vcs) :
    LET credential == vcs[i].credential
        issuer == Get(Prop(credential, "issuer")).v
        proof == Get(GivenProof(credential))
    IN /\ Prop(proof, "verificationMethod") = Some(JString(KeyId(issuer)))
       /\ Prop(proof, "proofPurpose") = Some(JString(<<"assertionMethod">>))
       /\ \E k \in 1..Len(dids) :
            /\ dids[k].did = issuer
            /\ dids[k].didDocument.assertionMethod
                 = <<Get(Prop(proof, "verificationMethod")).v>>

\* an Ed25519 DID issued a credential and the credential was returned
C12_Witness ==
  /\ Len(vcs) > 0
  /\ dids[1].keyType = "ed25519"
  /\ response.route = "issue-vc"
  /\ response.status = 200
  /\ Prop(Get(GivenProof(response.body.credential)), "verificationMethod")
       = Some(JString(KeyId(dids[1].did)))

\* C13: whatever the claims object holds, a key named id included, the
\* credentialSubject.id of the issued credential is the subjectDid passed to
\* issuance, and verifying the credential reports that subjectDid as subject
C13_SubjectIsSubjectDid ==
  Called /\ ~Get(output).threw =>
    /\ Prop(Get(Prop(Get(Get(output).credential), "credentialSubject")), "id")
         = Some(JString(input.subjectDid))
    /\ Get(Get(output).result).subject = Some(JString(input.subjectDid))

\* C14: issuing with a key-type tag that is neither ed25519 nor secp256k1
\* fails and returns no credential
C14_UnknownKeyTypeRejected ==
  Called /\ input.keyType \notin {"ed25519", "secp256k1"} =>
    /\ Get(output).threw
    /\ Get(output).credential = None

\* C16: the text a verifier recomputes from an issued credential with its
\* proof removed is the text that was signed at issuance, whether it holds
\* the object issuance returned or one that went through JSON.stringify and
\* JSON.parse, for claims with nested objects, characters outside ASCII and
\* characters JSON escapes
C16_RecomputedBytesAreSigned ==
  Called /\ ~Get(output).threw =>
    /\ Get(output).recomputed = Some(Get(output).signed)
    /\ Get(output).reparsed = Some(Get(output).signed)

\* a credential whose claims hold a nested object and a character outside
\* ASCII was issued, serialized, parsed and its text recomputed
C16_Witness ==
  /\ Called
  /\ input.claims = Nested
  /\ IsSome(Get(output).reparsed)
  /\ \E i \in 1..Len(Get(output).signed) : Get(output).signed[i] = "U+00EB"
  /\ \E i \in 1..Len(Get(output).signed) : Get(output).signed[i] = KeyToken("city")

NoIssuer == <<"No issuer DID available. Please register a DID first.">>

\* handler i takes the step, and handler i sends its response in the step
Moves(i) == output'[i].pc # output[i].pc
Sends(i) == output[i].pc # "done" /\ output'[i].pc = "done"

\* C15: a failed issue request persists nothing.  An issue request that
\* passed the schema and read no DID is rejected with the no-issuer error;
\* the one step of an issue handler that writes is the call of createVc,
\* which adds one credential, and the handler that made it answers with
\* that credential, while every handler that answers with an error has
\* left the store as it was; every credential in the store has a proof
\* with a proofValue that is not empty and an issuer that is a registered
\* DID
C15_FailedIssuancePersistsNothing ==
  /\ [](\A i \in 1..Len(vcs) :
          LET credential == vcs[i].credential
          IN /\ GivenProof(credential) # None
             /\ HasSignatureText(credential)
             /\ \E k \in 1..Len(dids) :
                  Some(JString(dids[k].did)) = Prop(credential, "issuer"))
  /\ [][\A i \in DOMAIN input : input[i].kind = "issue" /\ Moves(i) =>
          /\ output'[i].pc # "saved" => UNCHANGED store
          /\ output'[i].pc = "saved" =>
               /\ Len(vcs') = Len(vcs) + 1
               /\ UNCHANGED <<dids, currentDidId>>
          /\ output'[i].pc = "listed" =>
               Len(Get(output'[i].local)) = Len(dids)
          /\ Sends(i) =>
               /\ response'.route = "issue-vc"
               /\ response'.status = 200 <=> output[i].pc = "saved"
               /\ response'.status = 200 =>
                    \E k \in 1..Len(vcs) :
                      vcs[k].credential = response'.body.credential
               /\ output[i].pc = "listed" =>
                    /\ Get(output[i].local) = <<>>
                    /\ response'.status = 400
                    /\ response'.body = NoIssuer]_vars

\* signing failed for a secp256k1 issuer, the request was answered with an
\* error, and the store holds the credential of an earlier request only
C15_Witness ==
  /\ response.route = "issue-vc"
  /\ response.status = 500
  /\ Len(vcs) = 1
  /\ currentVcId = 2

\* C17: verification changes nothing.  Whatever a client presents of a
\* stored credential, the call of verifyVerifiableCredential with the key
\* of its issuer leaves the object it was given as it was, and every
\* step of a /api/verify-vc handler, whatever the request is answered with,
\* leaves the DID store and the credential store as they were
C17_VerifyChangesNothing ==
  /\ [](\A i \in 1..Len(vcs) : \A credential \in Presentations(vcs[i].credential) :
          \A k \in 1..Len(dids) :
            Some(JString(dids[k].did)) = Prop(credential, "issuer") =>
              VerifyRun(credential, dids[k].publicKey, dids[k].keyType).credential
                = credential)
  /\ [][\A i \in DOMAIN input : input[i].kind = "verify" /\ Moves(i) =>
          /\ UNCHANGED store
          /\ Sends(i) => response'.route = "verify-vc"]_vars

\* a request to verify a credential of a store that holds two DIDs and two
\* credentials was answered with verified = false
C17_Witness ==
  /\ Len(dids) = 2
  /\ Len(vcs) = 2
  /\ response.route = "verify-vc"
  /\ response.status = 200
  /\ response.body.verified = FALSE

OnlyDidKey == <<"Only did:key method is currently supported">>

\* C20: a register request for a method other than did:key is rejected with
\* an error and changes nothing.  It is answered with status 400 in the
\* first step of its handler; every register request that is answered with
\* an error is answered in that first step, before anything is written to
\* the store or its counters, by which the key pairs are numbered, and no
\* record of the DID store was made for another method than did:key
C20_OtherMethodRejected ==
  /\ [](\A i \in 1..Len(dids) : dids[i].method = "did:key")
  /\ [][\A i \in DOMAIN input : input[i].kind = "register" /\ Moves(i) =>
          /\ input[i].method # "did:key" =>
               /\ Sends(i)
               /\ response'.status = 400
               /\ response'.body \in {OnlyDidKey, <<"Invalid request">>}
          /\ Sends(i) =>
               /\ response'.route = "register"
               /\ response'.status \in {200, 400}
               /\ response'.status = 400 =>
                    /\ output[i].pc = "start"
                    /\ response'.body \in {OnlyDidKey, <<"Invalid request">>}
               /\ UNCHANGED store
          /\ ~Sends(i) =>
               /\ Len(dids') = Len(dids) + 1
               /\ dids'[Len(dids')].method = "did:key"]_vars

\* a did:web request was rejected by a store that holds a DID
C20_Witness ==
  /\ Len(dids) = 1
  /\ currentDidId = 2
  /\ response.route = "register"
  /\ response.status = 400
  /\ response.body = OnlyDidKey

\* the response /api/verify-vc gives for the credential when the request is
\* the only one in flight
VerifiedAlone(ds, credential) ==
  IF credential.t # "object" \/ Falsy(Prop(credential, "issuer"))
  THEN [status |-> 400, found |-> FALSE, result |-> <<>>]
  ELSE LET known == { k \in 1..Len(ds) :
                        JString(ds[k].did) = Get(Prop(credential, "issuer")) }
       IN IF known = {} THEN [status |-> 404, found |-> FALSE, result |-> <<>>]
          ELSE [status |-> 200, found |-> TRUE,
                result |-> verifyVerifiableCredential(
                             credential, ds[CHOOSE k \in known : TRUE].publicKey,
                             ds[CHOOSE k \in known : TRUE].keyType)]

\* C18: with register, issue and verify requests interleaved at their
\* awaits, every verify request is answered as it is when it runs alone:
\* the DID record it read is the stored record of the credential's issuer,
\* and the result is what verifyVerifiableCredential gives for the
\* credential, the public key and the key type of that record
C18_VerifyUnaffectedByOthers ==
  \A i \in 1..Len(output) :
    input[i].kind = "verify" /\ output[i].response # None =>
      LET alone == VerifiedAlone(dids, Get(input[i].credential))
          sent == Get(output[i].response)
      IN /\ sent.status = alone.status
         /\ alone.found =>
              /\ sent.body = alone.result
              /\ JString(Get(output[i].found).did)
                   = Get(Prop(Get(input[i].credential), "issuer"))
              /\ \E k \in 1..Len(dids) : dids[k] = Get(output[i].found)

\* a credential was verified while a registration and an issuance were in
\* flight: the second DID was stored and the second credential signed
C18_Witness ==
  /\ Len(dids) = 2
  /\ \E i \in 1..Len(output) :
       /\ input[i].kind = "verify"
       /\ output[i].response # None
       /\ Get(output[i].response).status = 200
       /\ Get(output[i].response).body.verified = TRUE
  /\ \E i \in 1..Len(output) : output[i].pc = "created"
  /\ \E i \in 1..Len(output) : output[i].pc = "issued"

\* the DID that was registered first: createDid numbers the records
FirstRegistered == dids[CHOOSE k \in 1..Len(dids) : dids[k].id = 1]

\* C19: however register and issue requests interleave, the issuer of every
\* credential issued is the DID that was registered first, and its proof is
\* the signature made with the private key and the key type stored for that
\* DID
C19_FirstDidIssues ==
  \A i \in 1..Len(vcs) :
    LET credential == vcs[i].credential
        signed == signatureOf(JSONstringify(Without(credential, "proof")),
                              fromHex(FirstRegistered.privateKey),
                              FirstRegistered.keyType)
    IN /\ \E k \in 1..Len(dids) : dids[k].id = 1
       /\ vcs[i].issuer = FirstRegistered.did
       /\ Prop(credential, "issuer") = Some(JString(FirstRegistered.did))
       /\ Prop(Get(GivenProof(credential)), "type")
            = ExpectedProofType(FirstRegistered.keyType)
       /\ ~signed.threw
       /\ GivenProofValue(credential)
            = Some(JString(<<"z">> \o toBase64(signed.value)))

\* two registrations, of different schemes, and an issuance were in flight
\* together on an empty store; both DIDs were stored and the credential
\* issued
C19_Witness ==
  /\ Len(dids) = 2
  /\ dids[1].keyType # dids[2].keyType
  /\ Len(vcs) = 1
  /\ \A i \in 1..Len(output) : output[i].pc = "done"
  /\ response.route = "issue-vc"
  /\ response.status = 200

\* C21: the DID store gives read-after-write consistency and loses nothing.
\* getDid for the DID of a stored record returns a record with that DID,
\* and every step leaves each stored DID readable with the public key, the
\* private key and the key type it was stored with; the numbers of stored
\* DIDs and of stored credentials never decrease
C21_StoreKeepsRecords ==
  /\ [](\A i \in 1..Len(dids) :
          /\ getDid(dids, dids[i].did) # None
          /\ Get(getDid(dids, dids[i].did)).did = dids[i].did)
  /\ [][/\ Len(dids') >= Len(dids)
        /\ Len(vcs') >= Len(vcs)
        /\ \A i \in 1..Len(dids) :
             /\ getDid(dids', dids[i].did) # None
             /\ Get(getDid(dids', dids[i].did)).did = dids[i].did
             /\ Get(getDid(dids', dids[i].did)).publicKey = dids[i].publicKey
             /\ Get(getDid(dids', dids[i].did)).privateKey = dids[i].privateKey
             /\ Get(getDid(dids', dids[i].did)).keyType = dids[i].keyType]_vars

\* the DID registered first was resolved after a second DID was registered
\* and a credential issued
C21_Witness ==
  /\ Len(dids) = 2
  /\ Len(vcs) >= 1
  /\ response.route = "resolve"
  /\ response.status = 200
  /\ response.body.publicKey = dids[1].publicKey
  /\ response.body.didDocument = dids[1].didDocument

\* C22: in every result of credential verification verified is true exactly
\* when the result has no errors list, and a result with verified false has
\* an errors list that is not empty
C22_VerifiedIffNoErrors ==
  Called =>
    /\ Outcome.verified = TRUE <=> Outcome.errors = None
    /\ Outcome.verified = FALSE =>
         IsSome(Outcome.errors) /\ Get(Outcome.errors) # <<>>

\* a signature the secp256k1 primitive checked and refused gave verified
\* false with the invalid-signature reason alone
C22_Witness ==
  /\ Called
  /\ Get(output).calls = <<"verifySecp256k1">>
  /\ Outcome.verified = FALSE
  /\ Outcome.errors = Some(<<InvalidSignature>>)

EditedFrom ==
  { i \in DOMAIN Issued :
      /\ input.credential \in ProofEdits(Issued[i].credential)
      /\ input.issuerPublicKey = Issued[i].publicKey
      /\ input.keyType = Issued[i].keyType }

\* C24: the signature does not cover the proof block.  An issued credential
\* with created, verificationMethod or proofPurpose of its proof changed,
\* verified against the issuer's key, gives verified = true and the result
\* the credential as issued gives; and for every credential with a proof,
\* changing these three fields leaves the result of the call as it is
C24_ProofBlockNotSigned ==
  Called =>
    /\ \A i \in EditedFrom :
         /\ Outcome.verified = TRUE
         /\ Outcome = verifyVerifiableCredential(Issued[i].credential,
                                                 Issued[i].publicKey, Issued[i].keyType)
    /\ HasProofObject(input.credential) =>
         \A edited \in ProofEdits(input.credential) :
           verifyVerifiableCredential(edited, input.issuerPublicKey, input.keyType)
             = Outcome

\* an issued secp256k1 credential with the three fields of its proof changed
\* was verified against the issuer's key and accepted
C24_Witness ==
  /\ Called
  /\ EditedFrom # {}
  /\ input.keyType = "secp256k1"
  /\ Prop(Get(GivenProof(input.credential)), "proofPurpose")
       = Some(JString(<<"example">>))
  /\ Prop(Get(GivenProof(input.credential)), "verificationMethod")
       = Some(JString(Alyce \o <<"#", "key">>))
  /\ Prop(Get(GivenProof(input.credential)), "created")
       # Prop(input.credential, "issuanceDate")
  /\ Get(output).calls = <<"verifySecp256k1">>
  /\ Outcome.verified = TRUE

\* the issued credentials of which the credential verified is a copy with
\* another first character of proofValue, verified against the issuer's key
\* and key type
RelabelledFrom ==
  { i \in DOMAIN Issued :
      /\ input.credential \in
           { WithLeading(Issued[i].credential, ch) : ch \in LeadingCharacters \ {"z"} }
      /\ input.issuerPublicKey = Issued[i].publicKey
      /\ input.keyType = Issued[i].keyType }

\* C25: verification discards the first character of proofValue without
\* checking it.  A credential whose proofValue is a string and not empty
\* gives the result every credential gives that differs from it in that
\* first character only; an issued credential whose leading z was replaced
\* is accepted as the issued one is
C25_FirstCharacterIgnored ==
  Called =>
    /\ RelabelledFrom # {} => Outcome.verified = TRUE
    /\ HasSignatureText(input.credential) =>
         \A ch \in LeadingCharacters :
           verifyVerifiableCredential(WithLeading(input.credential, ch),
                                      input.issuerPublicKey, input.keyType)
             = Outcome

\* an issued Ed25519 credential with # in the place of the leading z of
\* proofValue was verified against the issuer's key and accepted
C25_Witness ==
  /\ Called
  /\ RelabelledFrom # {}
  /\ input.keyType = "ed25519"
  /\ Head(Get(GivenProofValue(input.credential)).v) = "#"
  /\ Get(output).calls = <<"verifyEd25519">>
  /\ Outcome.verified = TRUE
====
